---- MODULE Spec2Model ----
(***************************************************************************)
(* Verification model of knative-source-kinesis:                           *)
(*   - the KinesisSourceStatus condition set (pkg/apis/sources/v1alpha1),  *)
(*   - the reconciler and the receive-adapter deployment builder           *)
(*     (pkg/reconciler, pkg/reconciler/resources),                         *)
(*   - the receive adapter's record processor (pkg/adapter).               *)
(*   - the receive adapter's process start-up (cmd/receive_adapter and     *)
(*     Adapter.Start).                                                     *)
(* Several specifications share the module: SpecStatus, SpecReconcile,     *)
(* SpecAdapter, SpecStartup, SpecSources and SpecConverge.  Each one moves *)
(* its own variables and pins the others.                                  *)
(***************************************************************************)
EXTENDS Integers, Sequences, FiniteSets, TLC

VARIABLES
    status,       \* SpecStatus: one KinesisSourceStatus value
    lastOp,       \* SpecStatus: name of the last status method applied
    src,          \* SpecReconcile: the KinesisSource object (metadata, spec, status)
    deployments,  \* SpecReconcile: the Deployments stored in the cluster, in list order
    pass,         \* SpecReconcile: record of the last Reconcile pass (calls made, result)
    shards,       \* SpecAdapter: per-shard state of runtime, processor and sink
    proc,         \* SpecStartup: the receive adapter process, from main to its exit
    sources       \* SpecSources: two KinesisSource objects reconciled in any order

vars == <<status, lastOp, src, deployments, pass, shards, proc, sources>>

(***************************************************************************)
(* Generic helpers                                                         *)
(***************************************************************************)
Range(s) == {s[i] : i \in 1..Len(s)}

RECURSIVE Count(_, _)
\* number of elements of the sequence s that are in the set S
Count(s, S) ==
    IF s = <<>> THEN 0
    ELSE (IF Head(s) \in S THEN 1 ELSE 0) + Count(Tail(s), S)

(***************************************************************************)
(* Status condition set: pkg/apis/sources/v1alpha1/kinesis_types.go        *)
(***************************************************************************)
KinesisSourceConditionReady == "Ready"
KinesisSourceConditionSinkProvided == "SinkProvided"
KinesisSourceConditionDeployed == "Deployed"

\* the happy condition and its dependents of the living condition set; the
\* set stores conditions sorted by type, one per type, so a function from
\* type to condition is the same information
happy == KinesisSourceConditionReady

dependentsSinkOnly == <<KinesisSourceConditionSinkProvided>>

dependents == <<KinesisSourceConditionSinkProvided, KinesisSourceConditionDeployed>>
ConditionTypes == {KinesisSourceConditionDeployed, KinesisSourceConditionReady,
                   KinesisSourceConditionSinkProvided}

\* a condition that is not in the list (GetCondition returns nil)
NoCondition == [Status |-> "nil", Reason |-> "", Message |-> ""]
Condition(st, reason, message) == [Status |-> st, Reason |-> reason, Message |-> message]

\* the zero KinesisSourceStatus{}
EmptyStatus == [Conditions |-> [t \in ConditionTypes |-> NoCondition], SinkURI |-> ""]

\* message formats are a text followed or not by one %s verb
Format(text, verb) == [text |-> text, verb |-> verb]

\* fmt.Sprintf(messageFormat, messageA...) for string arguments
Sprintf(f, a) ==
    IF f.verb
    THEN IF Len(a) = 0 THEN f.text \o "%!s(MISSING)"
         ELSE IF Len(a) = 1 THEN f.text \o a[1]
         ELSE f.text \o a[1] \o "%!(EXTRA)"
    ELSE IF Len(a) = 0 THEN f.text ELSE f.text \o "%!(EXTRA)"

\* fmt.Sprintf(messageFormat, messageA) with the argument slice passed as ONE
\* operand, as MarkUnknown does when it falls back to MarkFalse on the happy
\* condition
SprintfSlice(f, a) ==
    IF f.verb
    THEN IF Len(a) = 0 THEN f.text \o "[]" ELSE f.text \o "[" \o a[1] \o "]"
    ELSE f.text \o "%!(EXTRA)"

GetCondition(s, t) == s.Conditions[t]

IsTrue(c) == c.Status = "True"
IsFalse(c) == c.Status = "False"
IsUnknown(c) == c.Status = "Unknown"

SetCondition(s, t, c) == [s EXCEPT !.Conditions[t] = c]

IsHappy(s) == IsTrue(GetCondition(s, happy))

IsReady(s) == IsHappy(s)

\* InitializeCondition: only a condition that is absent is set, to Unknown
InitializeConditionReset(s, t) ==
    SetCondition(s, t, Condition("Unknown", "", ""))

InitializeCondition(s, t) ==
    IF GetCondition(s, t) = NoCondition
    THEN SetCondition(s, t, Condition("Unknown", "", ""))
    ELSE s

RECURSIVE InitializeEach(_, _)
InitializeEach(s, types) ==
    IF types = << >> THEN s
    ELSE InitializeEach(InitializeCondition(s, Head(types)), Tail(types))

\* conditionsImpl.InitializeConditions: the dependents, then the happy one
InitializeConditions(s) == InitializeEach(s, dependents \o <<happy>>)

AllDependentsTrue(s) == \A i \in 1..Len(dependents) : IsTrue(GetCondition(s, dependents[i]))

\* conditionsImpl.MarkTrue: set t, then the happy condition when every
\* dependent is True
MarkTrue(s, t) ==
    LET s1 == SetCondition(s, t, Condition("True", "", ""))
    IN  IF AllDependentsTrue(s1)
        THEN SetCondition(s1, happy, Condition("True", "", ""))
        ELSE s1

IsDependent(t) == \E i \in 1..Len(dependents) : dependents[i] = t

MarkFalseMsgBareHappy(s, t, reason, message) ==
    LET s1 == SetCondition(s, t, Condition("False", reason, message))
    IN  IF IsDependent(t)
        THEN SetCondition(s1, happy, Condition("False", "", ""))
        ELSE s1

\* conditionsImpl.MarkFalse: set t and, when t is a dependent, the happy
\* condition, to False with the same reason and message
MarkFalseMsg(s, t, reason, message) ==
    LET s1 == SetCondition(s, t, Condition("False", reason, message))
    IN  IF IsDependent(t)
        THEN SetCondition(s1, happy, Condition("False", reason, message))
        ELSE s1

MarkFalse(s, t, reason, f, a) == MarkFalseMsg(s, t, reason, Sprintf(f, a))

\* index of the first dependent that is False, 0 when there is none
FirstFalseDependent(s) ==
    IF \E i \in 1..Len(dependents) : IsFalse(GetCondition(s, dependents[i]))
    THEN CHOOSE i \in 1..Len(dependents) :
            /\ IsFalse(GetCondition(s, dependents[i]))
            /\ \A j \in 1..(i - 1) : ~IsFalse(GetCondition(s, dependents[j]))
    ELSE 0

\* conditionsImpl.MarkUnknown: set t; a False dependent keeps the happy
\* condition False, otherwise the happy condition follows t to Unknown
MarkUnknown(s, t, reason, f, a) ==
    LET s1 == SetCondition(s, t, Condition("Unknown", reason, Sprintf(f, a)))
    IN  IF FirstFalseDependent(s1) # 0
        THEN IF ~IsFalse(GetCondition(s1, happy))
             THEN MarkFalseMsg(s1, happy, reason, SprintfSlice(f, a))
             ELSE s1
        ELSE IF IsDependent(t)
             THEN SetCondition(s1, happy, Condition("Unknown", reason, Sprintf(f, a)))
             ELSE s1

SinkEmptyFormat == Format("Sink has resolved to empty.", TRUE)

MarkSinkAnyURI(s, uri) ==
    MarkTrue([s EXCEPT !.SinkURI = uri], KinesisSourceConditionSinkProvided)

MarkSink(s, uri) ==
    LET s1 == [s EXCEPT !.SinkURI = uri]
    IN  IF uri # ""
        THEN MarkTrue(s1, KinesisSourceConditionSinkProvided)
        ELSE MarkUnknown(s1, KinesisSourceConditionSinkProvided,
                         "SinkEmpty", SinkEmptyFormat, <<"">>)

MarkNoSinkAsUnknown(s, reason, f, a) ==
    MarkUnknown(s, KinesisSourceConditionSinkProvided, reason, f, a)

MarkNoSink(s, reason, f, a) ==
    MarkFalse(s, KinesisSourceConditionSinkProvided, reason, f, a)

MarkDeployedSkipped(s) == s

MarkDeployed(s) == MarkTrue(s, KinesisSourceConditionDeployed)

MarkDeploying(s, reason, f, a) ==
    MarkUnknown(s, KinesisSourceConditionDeployed, reason, f, a)

MarkNotDeployed(s, reason, f, a) ==
    MarkFalse(s, KinesisSourceConditionDeployed, reason, f, a)


(***************************************************************************)
(* Receive adapter deployment: pkg/reconciler/resources/receive_adapter.go *)
(***************************************************************************)
controllerAgentName == "aws-kinesis-source-controller"
finalizerName == controllerAgentName

\* a map[string]string with one or two entries
Map1(k, v) == k :> v
Map2(k1, v1, k2, v2) == (k1 :> v1) @@ (k2 :> v2)

EnvVar(name, value) == [Name |-> name, Value |-> value]

credsVolume == "aws-credentials"
credsMountPath == "/var/secrets/aws"

\* fmt.Sprintf("%s/%s", credsMountPath, key)
credsFile(key) == credsMountPath \o "/" \o key

UsesSecretUnlessRole(s) ==
    /\ s.Spec.AwsCredsSecret.Name # "" /\ s.Spec.AwsCredsSecret.Key # ""
    /\ s.Spec.KIAMOptions.KCLIAMRoleARN = ""

\* the condition of the if in makeDeploymentSpec
UsesSecret(s) == s.Spec.AwsCredsSecret.Name # "" /\ s.Spec.AwsCredsSecret.Key # ""

SecretDeploymentSpec(args) ==
    [Selector |-> args.Labels,
     Replicas |-> 1,
     Template |->
        [Annotations |-> Map1("sidecar.istio.io/inject", "true"),
         Labels |-> args.Labels,
         Spec |->
            [ServiceAccountName |-> args.Source.Spec.ServiceAccountName,
             Containers |-> <<
                [Name |-> "receive-adapter",
                 Image |-> args.Image,
                 Env |-> <<
                    EnvVar("AWS_APPLICATION_CREDENTIALS",
                           credsFile(args.Source.Spec.AwsCredsSecret.Key)),
                    EnvVar("STREAM_NAME", args.Source.Spec.StreamName),
                    EnvVar("REGION", args.Source.Spec.Region),
                    EnvVar("SINK_URI", args.SinkURI),
                    EnvVar("CONSUMER_NAME", args.Source.Name) >>,
                 VolumeMounts |-> << [Name |-> credsVolume, MountPath |-> credsMountPath] >>] >>,
             Volumes |-> << [Name |-> credsVolume,
                             SecretName |-> args.Source.Spec.AwsCredsSecret.Name] >>]]]

KiamDeploymentSpec(args) ==
    [Selector |-> args.Labels,
     Replicas |-> 1,
     Template |->
        [Annotations |-> Map2("sidecar.istio.io/inject", "true",
                              "iam.amazonaws.com/role",
                              args.Source.Spec.KIAMOptions.AssignedIAMRole),
         Labels |-> args.Labels,
         Spec |->
            [ServiceAccountName |-> args.Source.Spec.ServiceAccountName,
             Containers |-> <<
                [Name |-> "receive-adapter",
                 Image |-> args.Image,
                 Env |-> <<
                    EnvVar("STREAM_NAME", args.Source.Spec.StreamName),
                    EnvVar("KCL_IAM_ROLE_ARN", args.Source.Spec.KIAMOptions.KCLIAMRoleARN),
                    EnvVar("REGION", args.Source.Spec.Region),
                    EnvVar("SINK_URI", args.SinkURI),
                    EnvVar("CONSUMER_NAME", args.Source.Name) >>,
                 VolumeMounts |-> << >>] >>,
             Volumes |-> << >>]]]

makeDeploymentSpecInverted(args) ==
    IF UsesSecret(args.Source)
    THEN KiamDeploymentSpec(args)
    ELSE SecretDeploymentSpec(args)

makeDeploymentSpec(args) ==
    IF UsesSecret(args.Source)
    THEN SecretDeploymentSpec(args)
    ELSE KiamDeploymentSpec(args)

\* fmt.Sprintf("kinesis-%s-", name)
GenerateName(name) == "kinesis-" \o name \o "-"

MakeReceiveAdapter(args) ==
    [Namespace |-> args.Source.Namespace,
     GenerateName |-> GenerateName(args.Source.Name),
     Labels |-> args.Labels,
     OwnerReferences |-> << >>,
     Spec |-> makeDeploymentSpec(args)]


(***************************************************************************)
(* Reconciler: pkg/reconciler/kinesissource.go                             *)
(***************************************************************************)
\* the finalizer names of the model in lexical order, the order
\* sets.String.List() sorts by
foregroundDeletion == "foregroundDeletion"
FinalizerOrder == <<finalizerName, foregroundDeletion, "z-other-controller">>
OtherFinalizers == Range(FinalizerOrder) \ {finalizerName}

Rank(f) == CHOOSE i \in 1..Len(FinalizerOrder) : FinalizerOrder[i] = f

RECURSIVE SortedList(_)
\* sets.String.List(): the members of the set S as a sorted slice
SortedList(S) ==
    IF S = {} THEN << >>
    ELSE LET m == CHOOSE x \in S : \A y \in S : Rank(x) <= Rank(y)
         IN  <<m>> \o SortedList(S \ {m})

RECURSIVE Without(_, _)
\* the sequence s with every occurrence of x taken out, order kept
Without(s, x) ==
    IF s = << >> THEN << >>
    ELSE IF Head(s) = x THEN Without(Tail(s), x)
    ELSE <<Head(s)>> \o Without(Tail(s), x)

addFinalizerAppended(s) == [s EXCEPT !.Finalizers = Append(@, finalizerName)]

addFinalizer(s) ==
    [s EXCEPT !.Finalizers = SortedList(Range(s.Finalizers) \cup {finalizerName})]

removeFinalizerKeepAll(s) == s

removeFinalizer(s) ==
    [s EXCEPT !.Finalizers = SortedList(Range(s.Finalizers) \ {finalizerName})]

getLabels(s) ==
    Map2("knative-eventing-source", controllerAgentName,
         "knative-eventing-source-name", s.Name)

\* labels.SelectorFromSet(sel).Matches(labels)
SelectorMatches(sel, labels) ==
    \A k \in DOMAIN sel : k \in DOMAIN labels /\ labels[k] = sel[k]

IsControlledByName(dep, s) ==
    \E i \in 1..Len(dep.OwnerReferences) :
        /\ dep.OwnerReferences[i].Controller
        /\ dep.OwnerReferences[i].UID = s.Name

\* metav1.IsControlledBy: the first owner reference flagged Controller has the
\* UID of the source
IsControlledBy(dep, s) ==
    \E i \in 1..Len(dep.OwnerReferences) :
        /\ dep.OwnerReferences[i].Controller
        /\ \A j \in 1..(i - 1) : ~dep.OwnerReferences[j].Controller
        /\ dep.OwnerReferences[i].UID = s.UID

\* what client.List returns for the source's namespace and label selector:
\* the indexes in deployments of the items listed, in list order
Listed(deps, s) ==
    {i \in 1..Len(deps) :
        /\ deps[i].Namespace = s.Namespace
        /\ SelectorMatches(getLabels(s), deps[i].Labels)}

getReceiveAdapterNotFound(deps, s) == 0

getReceiveAdapterFirstListed(deps, s) ==
    IF Listed(deps, s) = {} THEN 0
    ELSE CHOOSE i \in Listed(deps, s) : \A j \in Listed(deps, s) : i <= j

\* getReceiveAdapter after a successful List: the index of the first listed
\* item the source controls, 0 for the NotFound error
getReceiveAdapter(deps, s) ==
    LET owned == {i \in Listed(deps, s) : IsControlledBy(deps[i], s)}
    IN  IF owned = {} THEN 0 ELSE CHOOSE i \in owned : \A j \in owned : i <= j

\* equality.Semantic.DeepDerivative(a1, a2) on the kinds of a PodSpec: an
\* unset (empty) field of a1 is not compared; an empty slice of a1 is not
\* compared and another one may be shorter than that of a2
DerivativeString(a1, a2) == a1 = "" \/ a1 = a2

DerivativeEnvVar(a1, a2) ==
    DerivativeString(a1.Name, a2.Name) /\ DerivativeString(a1.Value, a2.Value)

DerivativeEnv(a1, a2) ==
    \/ Len(a1) = 0
    \/ /\ Len(a1) <= Len(a2)
       /\ \A i \in 1..Len(a1) : DerivativeEnvVar(a1[i], a2[i])

DerivativeVolumeMount(a1, a2) ==
    DerivativeString(a1.Name, a2.Name) /\ DerivativeString(a1.MountPath, a2.MountPath)

DerivativeVolumeMounts(a1, a2) ==
    \/ Len(a1) = 0
    \/ /\ Len(a1) <= Len(a2)
       /\ \A i \in 1..Len(a1) : DerivativeVolumeMount(a1[i], a2[i])

DerivativeVolume(a1, a2) ==
    DerivativeString(a1.Name, a2.Name) /\ DerivativeString(a1.SecretName, a2.SecretName)

DerivativeVolumes(a1, a2) ==
    \/ Len(a1) = 0
    \/ /\ Len(a1) <= Len(a2)
       /\ \A i \in 1..Len(a1) : DerivativeVolume(a1[i], a2[i])

DerivativeContainer(a1, a2) ==
    /\ DerivativeString(a1.Name, a2.Name)
    /\ DerivativeString(a1.Image, a2.Image)
    /\ DerivativeEnv(a1.Env, a2.Env)
    /\ DerivativeVolumeMounts(a1.VolumeMounts, a2.VolumeMounts)

DerivativeContainers(a1, a2) ==
    \/ Len(a1) = 0
    \/ /\ Len(a1) <= Len(a2)
       /\ \A i \in 1..Len(a1) : DerivativeContainer(a1[i], a2[i])

\* DeepDerivative on two PodSpec values
DeepDerivative(a1, a2) ==
    /\ DerivativeString(a1.ServiceAccountName, a2.ServiceAccountName)
    /\ DerivativeContainers(a1.Containers, a2.Containers)
    /\ DerivativeVolumes(a1.Volumes, a2.Volumes)

podSpecChangedAlways(oldPodSpec, newPodSpec) == TRUE

podSpecChangedDerivativeOnly(oldPodSpec, newPodSpec) ==
    ~DeepDerivative(newPodSpec, oldPodSpec)

podSpecChanged(oldPodSpec, newPodSpec) ==
    \/ ~DeepDerivative(newPodSpec, oldPodSpec)
    \/ Len(oldPodSpec.Containers) # Len(newPodSpec.Containers)
    \/ \E i \in 1..Len(newPodSpec.Containers) :
           newPodSpec.Containers[i].Env # oldPodSpec.Containers[i].Env

NotExactlyOneMode(s) ==
    (s.Spec.AwsCredsSecret.Name # "" /\ s.Spec.AwsCredsSecret.Key # "")
        = (s.Spec.KIAMOptions.AssignedIAMRole # "" /\ s.Spec.KIAMOptions.KCLIAMRoleARN # "")

\* the configuration check of createReceiveAdapter: all four credential
\* fields are empty
NoCredentialsUnchecked(s) == FALSE

NoCredentials(s) ==
    /\ s.Spec.AwsCredsSecret.Name = ""
    /\ s.Spec.AwsCredsSecret.Key = ""
    /\ s.Spec.KIAMOptions.AssignedIAMRole = ""
    /\ s.Spec.KIAMOptions.KCLIAMRoleARN = ""

\* controllerutil.SetControllerReference
SetControllerReferenceOmitted(s, dep) == dep

SetControllerReference(s, dep) ==
    [dep EXCEPT !.OwnerReferences = @ \o << [UID |-> s.UID, Controller |-> TRUE] >>]

\* the sequence deps with d inserted so that it is item number pos
InsertAt(deps, pos, d) ==
    SubSeq(deps, 1, pos - 1) \o <<d>> \o SubSeq(deps, pos, Len(deps))

receiveAdapterImage == "test-ra-image"

\* the zero corev1.PodSpec and appsv1.DeploymentSpec
EmptyPodSpec == [ServiceAccountName |-> "", Containers |-> << >>, Volumes |-> << >>]
EmptyDeploymentSpec ==
    [Selector |-> << >>, Replicas |-> 0,
     Template |-> [Annotations |-> << >>, Labels |-> << >>, Spec |-> EmptyPodSpec]]

\* stands for "no deployment" (a nil *v1.Deployment)
NoDeployment == [Namespace |-> "", GenerateName |-> "", Labels |-> << >>,
                 OwnerReferences |-> << >>, Spec |-> EmptyDeploymentSpec]

ErrNone == "nil"
ErrSink == "sink not found"
ErrList == "list failed"
ErrCreate == "create failed"
ErrUpdate == "update failed"
ErrConfiguration == "Configuration error"

updatedReceiveAdapterWholeSpec(ra, expected) == [ra EXCEPT !.Spec = expected.Spec]

\* the object createReceiveAdapter hands to client.Update: the deployment
\* found, with the pod spec of its template replaced
updatedReceiveAdapter(ra, expected) ==
    [ra EXCEPT !.Spec.Template.Spec = expected.Spec.Template.Spec]

\* createReceiveAdapter(ctx, src, sinkURI) against the cluster content deps.
\* in.listErr, in.writeErr: the List and the Create/Update call fail;
\* in.pos: where a created item shows up in later listings.
\* The result names the cluster content after the call, the API calls made
\* in order, the error returned, the deployment computed and the index of
\* the deployment found.
createReceiveAdapter(s, deps, sinkURI, in) ==
    LET ra == IF in.listErr THEN 0 ELSE getReceiveAdapter(deps, s)
        adapterArgs == [Image |-> receiveAdapterImage, Source |-> s,
                        Labels |-> getLabels(s), SinkURI |-> sinkURI]
        expected == MakeReceiveAdapter(adapterArgs)
        owned == SetControllerReference(s, expected)
        out(d, c, e, x, f) ==
            [deployments |-> d, calls |-> c, err |-> e, expected |-> x, found |-> f]
    IN  IF in.listErr
        THEN out(deps, <<"List">>, ErrList, NoDeployment, 0)
        ELSE IF NoCredentials(s)
        THEN out(deps, <<"List">>, ErrConfiguration, NoDeployment, ra)
        ELSE IF ra # 0
        THEN IF podSpecChanged(deps[ra].Spec.Template.Spec, expected.Spec.Template.Spec)
             THEN IF in.writeErr
                  THEN out(deps, <<"List", "Update">>, ErrUpdate, expected, ra)
                  ELSE out([deps EXCEPT ![ra] = updatedReceiveAdapter(@, expected)],
                           <<"List", "Update">>, ErrNone, expected, ra)
             ELSE out(deps, <<"List">>, ErrNone, expected, ra)
        ELSE IF in.writeErr
        THEN out(deps, <<"List", "Create">>, ErrCreate, owned, 0)
        ELSE out(InsertAt(deps, in.pos, owned), <<"List", "Create">>, ErrNone, owned, 0)

reconcileDeletedCascade(s, deps) ==
    [deployments |-> SelectSeq(deps, LAMBDA d : ~IsControlledBy(d, s)),
     calls |-> <<"Delete">>]

\* what a pass over a source with a deletion timestamp does to the cluster:
\* nothing, the deployment is left to the garbage collector
reconcileDeleted(s, deps) == [deployments |-> deps, calls |-> << >>]

ReturnsErrorUnlessUpdate(err) == err \notin {ErrNone, ErrUpdate}

\* the check of the error createReceiveAdapter returns: if err != nil
ReturnsError(err) == err # ErrNone

\* Reconcile(ctx, object) on the source s.  in.sinkErr, in.sinkURI: what
\* sinks.GetSinkURI returns.  The result names the source and the cluster
\* content after the pass, the calls made to collaborators in order and the
\* error returned.
ReconcileResult(s, deps, in) ==
    LET s1 == [addFinalizer(s) EXCEPT !.Status = InitializeConditions(@)]
        sNoSink == [s1 EXCEPT !.Status = MarkNoSink(@, "NotFound", Format("", FALSE), << >>)]
        s2 == [s1 EXCEPT !.Status = MarkSink(@, in.sinkURI)]
        ra == createReceiveAdapter(s2, deps, in.sinkURI, in)
        s3 == [s2 EXCEPT !.Status = MarkDeployed(@)]
        out(x, d, c, e, exp, f) ==
            [src |-> x, deployments |-> d, calls |-> c, ret |-> e,
             expected |-> exp, found |-> f]
    IN  IF s.DeletionTimestamp
        THEN out(removeFinalizer(s), reconcileDeleted(s, deps).deployments,
                 reconcileDeleted(s, deps).calls, ErrNone, NoDeployment, 0)
        ELSE IF in.sinkErr
        THEN out(sNoSink, deps, <<"GetSinkURI">>, ErrSink, NoDeployment, 0)
        ELSE IF ReturnsError(ra.err)
        THEN out(s2, ra.deployments, <<"GetSinkURI">> \o ra.calls, ra.err,
                 ra.expected, ra.found)
        ELSE out(s3, ra.deployments, <<"GetSinkURI">> \o ra.calls, ErrNone,
                 ra.expected, ra.found)


(***************************************************************************)
(* The objects the reconciler works on                                     *)
(***************************************************************************)
sourceName == "test-kinesis-source"
sourceUID == "1234-5678-90"
otherUID == "0000-other-uid"
testNS == "testnamespace"

Credentials(name, key, role, arn) ==
    [AwsCredsSecret |-> [Name |-> name, Key |-> key],
     KIAMOptions |-> [AssignedIAMRole |-> role, KCLIAMRoleARN |-> arn]]

\* the credential configurations a KinesisSource is given: none, either mode,
\* both modes, and modes filled in part
CredentialConfigs ==
    {Credentials("", "", "", ""),
     Credentials("kinesis-secret-name", "aws-secret-key", "", ""),
     Credentials("", "", "ASSIGNED-IAM-ROLE", "ROLE-ARN"),
     Credentials("kinesis-secret-name", "aws-secret-key", "ASSIGNED-IAM-ROLE", "ROLE-ARN"),
     Credentials("kinesis-secret-name", "", "", "")}

\* the finalizer lists a KinesisSource arrives with
InitialFinalizers ==
    {<< >>, <<"z-other-controller">>}

addressableURI == "http://addressable.sink.svc.cluster.local/"
SinkURIs == {"", addressableURI}

\* getSource() of the reconciler test, with credentials c and finalizers f
Source(c, f) ==
    [Name |-> sourceName, Namespace |-> testNS, UID |-> sourceUID,
     Finalizers |-> f,
     DeletionTimestamp |-> FALSE,
     Spec |-> [StreamName |-> "kinesis-name", Region |-> "us-west-2",
               AwsCredsSecret |-> c.AwsCredsSecret,
               KIAMOptions |-> c.KIAMOptions,
               ServiceAccountName |-> "source-svc-acct"],
     Status |-> EmptyStatus]

\* getReceiveAdapter() of the reconciler test: a deployment with the source's
\* labels, controlled by uid, and an empty pod template
ExistingReceiveAdapter(s, uid) ==
    [Namespace |-> s.Namespace, GenerateName |-> "", Labels |-> getLabels(s),
     OwnerReferences |-> << [UID |-> uid, Controller |-> TRUE] >>,
     Spec |-> EmptyDeploymentSpec]

\* the largest number of deployments put in the cluster from outside
MaxDeployments == 1

\* what one pass is given by its collaborators: the answer of GetSinkURI,
\* whether List and Create/Update fail, and the place a created item takes
\* in later listings.  An answer the pass never asks for is left at its
\* first value.
ReconcileInputs(deps) ==
    {in \in [sinkErr : BOOLEAN, sinkURI : SinkURIs, listErr : BOOLEAN,
             writeErr : BOOLEAN, pos : 1..(Len(deps) + 1)] :
        /\ in.sinkErr => (in.sinkURI = "" /\ ~in.listErr)
        /\ (in.sinkErr \/ in.listErr) => (~in.writeErr /\ in.pos = 1)
        /\ in.writeErr => in.pos = 1}

\* the record of a pass: n is 0 when the last step was not a pass and
\* alternates between 1 and 2 from pass to pass
\* listErr, writeErr: the List call, the Create or Update call of the pass
\* failed
\* prevCreated: the step before the pass was a pass too, and it created a
\* deployment and returned no error
NoPass(s, deps) ==
    [n |-> 0, pre |-> s, preDeployments |-> deps, sinkErr |-> FALSE, sinkURI |-> "",
     listErr |-> FALSE, writeErr |-> FALSE,
     ret |-> ErrNone, calls |-> << >>, expected |-> NoDeployment, found |-> 0,
     prevCreated |-> FALSE]

PassRecord(p, s, deps, in, r) ==
    [n |-> IF p.n = 1 THEN 2 ELSE 1, pre |-> s, preDeployments |-> deps,
     sinkErr |-> in.sinkErr, sinkURI |-> in.sinkURI,
     listErr |-> (in.listErr /\ "List" \in Range(r.calls)),
     writeErr |-> (in.writeErr /\ Range(r.calls) \cap {"Create", "Update"} # {}),
     ret |-> r.ret, calls |-> r.calls, expected |-> r.expected, found |-> r.found,
     prevCreated |-> (p.n # 0 /\ p.ret = ErrNone /\ "Create" \in Range(p.calls))]

(***************************************************************************)
(* SpecReconcile: passes of the reconciler over one KinesisSource, and the *)
(* changes made to the source and the cluster by others between passes     *)
(***************************************************************************)
\* one pass of Reconcile over src, its collaborators answering as in says
ReconcileWith(in) ==
    LET r == ReconcileResult(src, deployments, in)
    IN  /\ src' = r.src
        /\ deployments' = r.deployments
        /\ pass' = PassRecord(pass, src, deployments, in, r)
        /\ UNCHANGED <<status, lastOp, shards, proc, sources>>

Reconcile ==
    \E in \in ReconcileInputs(deployments) : ReconcileWith(in)

\* the owner edits the credential configuration of the source
EditCredentials ==
    \E c \in CredentialConfigs :
        /\ ~src.DeletionTimestamp
        /\ c # Credentials(src.Spec.AwsCredsSecret.Name, src.Spec.AwsCredsSecret.Key,
                           src.Spec.KIAMOptions.AssignedIAMRole,
                           src.Spec.KIAMOptions.KCLIAMRoleARN)
        /\ src' = [src EXCEPT !.Spec.AwsCredsSecret = c.AwsCredsSecret,
                              !.Spec.KIAMOptions = c.KIAMOptions]
        /\ pass' = NoPass(src', deployments)
        /\ UNCHANGED <<deployments, status, lastOp, shards, proc, sources>>

\* the owner deletes the source: the deletion timestamp is set and, for a
\* foreground deletion, the API server appends its own finalizer
DeleteSource ==
    \E foreground \in BOOLEAN :
        /\ ~src.DeletionTimestamp
        /\ src' = [src EXCEPT !.DeletionTimestamp = TRUE,
                              !.Finalizers = IF foreground
                                             THEN Append(@, foregroundDeletion)
                                             ELSE @]
        /\ pass' = NoPass(src', deployments)
        /\ UNCHANGED <<deployments, status, lastOp, shards, proc, sources>>

\* a deployment carrying the source's labels shows up in the cluster
ExternalDeployment ==
    \E uid \in {sourceUID, otherUID} :
        /\ Len(deployments) < MaxDeployments
        /\ deployments' = Append(deployments, ExistingReceiveAdapter(src, uid))
        /\ pass' = NoPass(src, deployments')
        /\ UNCHANGED <<src, status, lastOp, shards, proc, sources>>


(***************************************************************************)
(* Receive adapter record processor: pkg/adapter                           *)
(***************************************************************************)
eventType == "aws.kinesis.event"

\* shutdown reasons of the stream consumer runtime
REQUESTED == "REQUESTED"
TERMINATE == "TERMINATE"
ZOMBIE == "ZOMBIE"
ShutdownReasons == {REQUESTED, TERMINATE, ZOMBIE}

Shards == {"shardId-0", "shardId-1"}

\* records of a shard carry the sequence numbers 1..StreamLen
StreamLen == 3
\* largest batch the runtime hands to ProcessRecords
MaxBatch == 2

\* the checkpoint value the runtime stores for a checkpoint without offset:
\* the end of the shard, past every record
ShardEnd == StreamLen + 1

\* a *string argument: << >> is nil, <<n>> points at sequence number n
Nil == << >>
Ptr(n) == <<n>>

\* a record whose SequenceNumber field, a *string, points at the string of
\* sequence number n stored at address a
Record(n, a) == [SequenceNumber |-> n, Addr |-> a]

\* the addresses at which the runtime allocates the strings of a batch it
\* hands out: a delivery places its records from one of these on
Allocations == {16, 32}

\* the records iter .. iter+k-1 of a shard as one batch allocated from base
Batch(iter, k, base) == [i \in 1..k |-> Record(iter + i - 1, base + i - 1)]

\* what the sink answers to a POST: an HTTP status, 0 for no answer at all
SinkResponses == {0, 200, 202, 408, 500}

\* client.Send returns an error unless the sink answers with a 2xx status
SendFails(resp) == resp < 200 \/ resp > 299

\* fmt.Sprintf("%v:%v", sequenceNumber, recordsCount), written as the pair
\* of the two operands: sequenceNumber is the *string itself, and %v of a
\* pointer to a string prints the address it holds, not the string
eventID(records) == <<records[1].Addr, Len(records)>>

NoID == << >>

CallSend(records) ==
    [op |-> "Send", id |-> eventID(records), type |-> eventType, data |-> records,
     arg |-> Nil]
CallCheckpoint(arg) ==
    [op |-> "Checkpoint", id |-> NoID, type |-> "", data |-> << >>, arg |-> arg]

firstRecordSequenceNumber(records) == records[1].SequenceNumber

lastRecordSequenceNumber(records) == records[Len(records)].SequenceNumber

postMessagePerRecord(records) == [i \in 1..Len(records) |-> CallSend(<<records[i]>>)]

\* postMessage up to the point where Send has been called: one event for
\* the whole batch
postMessage(records) == << CallSend(records) >>

ProcessRecordsHeadCheckpointsEmpty(records) ==
    IF Len(records) = 0 THEN << CallCheckpoint(Nil) >> ELSE postMessage(records)

\* the calls ProcessRecords makes up to the point where Send has been
\* called: none for an empty batch
ProcessRecordsHead(records) ==
    IF Len(records) = 0 THEN << >> ELSE postMessage(records)

CheckpointAlways(err) == TRUE

\* ProcessRecords after postMessage returned err: whether it goes on to the
\* checkpoint
CheckpointsAfter(err) == ~err

\* the calls ProcessRecords makes once postMessage has returned
ProcessRecordsTail(records, err) ==
    IF CheckpointsAfter(err)
    THEN << CallCheckpoint(Ptr(lastRecordSequenceNumber(records))) >>
    ELSE << >>

ShutdownCallsAnyReason(reason) == << CallCheckpoint(Nil) >>

\* the calls Shutdown makes
ShutdownCalls(reason) ==
    IF reason = TERMINATE THEN << CallCheckpoint(Nil) >> ELSE << >>

\* RecordProcessorCheckpointer.Checkpoint of the runtime: the value stored
StoredCheckpoint(arg) == IF arg = Nil THEN ShardEnd ELSE arg[1]

RECURSIVE ApplyCheckpoints(_, _)
\* the stored checkpoint after the Checkpoint calls among calls, in order
ApplyCheckpoints(cp, calls) ==
    IF calls = << >> THEN cp
    ELSE ApplyCheckpoints(
            IF Head(calls).op = "Checkpoint" THEN StoredCheckpoint(Head(calls).arg) ELSE cp,
            Tail(calls))

SequenceNumbers(records) == {records[i].SequenceNumber : i \in 1..Len(records)}

\* a shard before its first callback
NewShard ==
    [pc |-> "idle",        \* "sending" while ProcessRecords waits in Send
     closed |-> FALSE,     \* the processor was shut down with TERMINATE
     iter |-> 1,           \* sequence number the next batch starts at
     checkpoint |-> 0,     \* the stored checkpoint, 0 for none
     handler |-> "none",   \* the callback invoked last
     batch |-> << >>,      \* its batch
     reason |-> "",        \* its shutdown reason
     resp |-> 0,           \* the sink's answer to its Send
     calls |-> << >>,      \* the calls it has made so far, in order
     failed |-> {},        \* sequence numbers whose last forward failed
     forwarded |-> {},     \* sequence numbers forwarded with success
     okLast |-> {}]        \* last sequence numbers of batches forwarded with success

NoShards == [sh \in Shards |-> NewShard]

Initialize(sh) ==
    /\ shards[sh].pc = "idle"
    /\ ~shards[sh].closed
    /\ shards[sh].handler \in {"none", "Shutdown"}
    /\ shards' = [shards EXCEPT ![sh].handler = "Initialize", ![sh].batch = << >>,
                                ![sh].reason = "", ![sh].resp = 0, ![sh].calls = << >>]
    /\ UNCHANGED <<status, lastOp, src, deployments, pass, proc, sources>>

\* the runtime invokes ProcessRecords with the next k records of the shard,
\* allocated where no batch still being forwarded lives; an empty batch
\* returns at once, another one is posted to the sink
ProcessRecordsBegin(sh) ==
    \E k \in 0..MaxBatch, base \in Allocations :
        LET s == shards[sh]
            records == Batch(s.iter, k, base)
            head == ProcessRecordsHead(records)
        IN  /\ s.pc = "idle"
            /\ ~s.closed
            /\ s.handler # "none"
            /\ s.iter + k - 1 <= StreamLen
            /\ \A o \in Shards \ {sh} :
                  shards[o].pc = "sending" => shards[o].batch[1].Addr # base
            /\ shards' = [shards EXCEPT
                    ![sh].handler = "ProcessRecords",
                    ![sh].batch = records,
                    ![sh].reason = "",
                    ![sh].resp = 0,
                    ![sh].pc = IF Len(records) = 0 THEN "idle" ELSE "sending",
                    ![sh].calls = head,
                    ![sh].checkpoint = ApplyCheckpoints(s.checkpoint, head)]
            /\ UNCHANGED <<status, lastOp, src, deployments, pass, proc, sources>>

ProcessRecordsEndSharedError(sh) ==
    \E resp \in SinkResponses :
        LET s == shards[sh]
            err == SendFails(resp)
            shared == err \/ \E o \in Shards \ {sh} :
                                /\ shards[o].handler = "ProcessRecords"
                                /\ shards[o].pc = "idle"
                                /\ Len(shards[o].batch) > 0
                                /\ SendFails(shards[o].resp)
            tail == ProcessRecordsTail(s.batch, shared)
            cp == ApplyCheckpoints(s.checkpoint, tail)
        IN  /\ s.pc = "sending"
            /\ shards' = [shards EXCEPT
                    ![sh].pc = "idle",
                    ![sh].resp = resp,
                    ![sh].calls = @ \o tail,
                    ![sh].checkpoint = cp,
                    ![sh].iter = IF cp + 1 > s.iter THEN cp + 1 ELSE s.iter,
                    ![sh].failed = IF err THEN @ \cup SequenceNumbers(s.batch)
                                   ELSE @ \ SequenceNumbers(s.batch),
                    ![sh].forwarded = IF err THEN @ ELSE @ \cup SequenceNumbers(s.batch),
                    ![sh].okLast = IF err THEN @
                                   ELSE @ \cup {lastRecordSequenceNumber(s.batch)}]
            /\ UNCHANGED <<status, lastOp, src, deployments, pass, proc, sources>>

\* Send returns with the sink's answer and ProcessRecords runs to its end.
\* The runtime hands out the records after the stored checkpoint next: a
\* batch that was not checkpointed is delivered again.
ProcessRecordsEnd(sh) ==
    \E resp \in SinkResponses :
        LET s == shards[sh]
            err == SendFails(resp)
            tail == ProcessRecordsTail(s.batch, err)
            cp == ApplyCheckpoints(s.checkpoint, tail)
        IN  /\ s.pc = "sending"
            /\ shards' = [shards EXCEPT
                    ![sh].pc = "idle",
                    ![sh].resp = resp,
                    ![sh].calls = @ \o tail,
                    ![sh].checkpoint = cp,
                    ![sh].iter = IF cp + 1 > s.iter THEN cp + 1 ELSE s.iter,
                    ![sh].failed = IF err THEN @ \cup SequenceNumbers(s.batch)
                                   ELSE @ \ SequenceNumbers(s.batch),
                    ![sh].forwarded = IF err THEN @ ELSE @ \cup SequenceNumbers(s.batch),
                    ![sh].okLast = IF err THEN @
                                   ELSE @ \cup {lastRecordSequenceNumber(s.batch)}]
            /\ UNCHANGED <<status, lastOp, src, deployments, pass, proc, sources>>

\* the runtime invokes Shutdown between two batches
Shutdown(sh) ==
    \E reason \in ShutdownReasons :
        LET s == shards[sh]
            c == ShutdownCalls(reason)
        IN  /\ s.pc = "idle"
            /\ ~s.closed
            /\ s.handler \notin {"none", "Shutdown"}
            /\ shards' = [shards EXCEPT
                    ![sh].handler = "Shutdown",
                    ![sh].batch = << >>,
                    ![sh].reason = reason,
                    ![sh].resp = 0,
                    ![sh].calls = c,
                    ![sh].checkpoint = ApplyCheckpoints(s.checkpoint, c),
                    ![sh].closed = (reason = TERMINATE)]
            /\ UNCHANGED <<status, lastOp, src, deployments, pass, proc, sources>>

(***************************************************************************)
(* SpecStatus: any sequence of the status methods on one status            *)
(***************************************************************************)
Reasons == {"Testing", "NotFound"}
Formats == {Format("", FALSE), Format("hi", TRUE)}
ExampleURIs == {"", "uri://example"}

DoInitializeConditions ==
    /\ status' = InitializeConditions(status)
    /\ lastOp' = "InitializeConditions"
    /\ UNCHANGED <<src, deployments, pass, shards, proc, sources>>

DoMarkSink ==
    \E uri \in ExampleURIs :
        /\ status' = MarkSink(status, uri)
        /\ lastOp' = "MarkSink"
        /\ UNCHANGED <<src, deployments, pass, shards, proc, sources>>

DoMarkNoSink ==
    \E reason \in Reasons, f \in Formats :
        /\ status' = MarkNoSink(status, reason, f, IF f.verb THEN <<"">> ELSE << >>)
        /\ lastOp' = "MarkNoSink"
        /\ UNCHANGED <<src, deployments, pass, shards, proc, sources>>

DoMarkDeployed ==
    /\ status' = MarkDeployed(status)
    /\ lastOp' = "MarkDeployed"
    /\ UNCHANGED <<src, deployments, pass, shards, proc, sources>>

DoMarkDeploying ==
    \E reason \in Reasons, f \in Formats :
        /\ status' = MarkDeploying(status, reason, f, IF f.verb THEN <<"">> ELSE << >>)
        /\ lastOp' = "MarkDeploying"
        /\ UNCHANGED <<src, deployments, pass, shards, proc, sources>>

DoMarkNotDeployed ==
    \E reason \in Reasons, f \in Formats :
        /\ status' = MarkNotDeployed(status, reason, f, IF f.verb THEN <<"">> ELSE << >>)
        /\ lastOp' = "MarkNotDeployed"
        /\ UNCHANGED <<src, deployments, pass, shards, proc, sources>>

StatusNext ==
    \/ DoInitializeConditions
    \/ DoMarkSink
    \/ DoMarkNoSink
    \/ DoMarkDeployed
    \/ DoMarkDeploying
    \/ DoMarkNotDeployed

\* the value of a variable the specification at hand does not use
Unused == << >>

StatusInit ==
    /\ status = EmptyStatus
    /\ lastOp = "new"
    /\ src = Unused
    /\ deployments = Unused
    /\ pass = Unused
    /\ shards = Unused
    /\ proc = Unused
    /\ sources = Unused

SpecStatus == StatusInit /\ [][StatusNext]_vars

ReconcileNext ==
    \/ Reconcile
    \/ EditCredentials
    \/ DeleteSource
    \/ ExternalDeployment

ReconcileInit ==
    /\ status = Unused
    /\ lastOp = Unused
    /\ \E c \in CredentialConfigs, f \in InitialFinalizers : src = Source(c, f)
    /\ deployments = << >>
    /\ pass = NoPass(src, deployments)
    /\ shards = Unused
    /\ proc = Unused
    /\ sources = Unused

SpecReconcile == ReconcileInit /\ [][ReconcileNext]_vars

AdapterNext ==
    \E sh \in Shards :
        \/ Initialize(sh)
        \/ ProcessRecordsBegin(sh)
        \/ ProcessRecordsEnd(sh)
        \/ Shutdown(sh)

AdapterInit ==
    /\ status = Unused
    /\ lastOp = Unused
    /\ src = Unused
    /\ deployments = Unused
    /\ pass = Unused
    /\ shards = NoShards
    /\ proc = Unused
    /\ sources = Unused

SpecAdapter == AdapterInit /\ [][AdapterNext]_vars

(***************************************************************************)
(* Receive adapter process: main (cmd/receive_adapter) and Adapter.Start   *)
(***************************************************************************)

requiredEnvStreamNameOnly == << "STREAM_NAME" >>

\* the keys main reads with getRequiredEnv, in the order the Adapter literal
\* evaluates them
requiredEnv == << "STREAM_NAME", "REGION", "SINK_URI", "CONSUMER_NAME" >>


\* getOptionalEnv: the value, "" when the key is not defined
getOptionalEnv(env, envKey) == IF env[envKey].defined THEN env[envKey].val ELSE ""

\* the required keys getRequiredEnv finds undefined, in evaluation order;
\* log.Fatalf ends the process at the first one
UndefinedRequired(env) ==
    SelectSeq(requiredEnv, LAMBDA k : ~env[k].defined)

sessionCredentialsRoleFirst(a) ==
    IF Len(a.KCLIAMRoleARN) > 0 THEN "role"
    ELSE IF Len(a.CredsFile) > 0 THEN "file"
    ELSE "none"

sessionCredentialsDefaultChain(a) ==
    IF Len(a.CredsFile) > 0 THEN "file" ELSE "role"

\* the branch Start takes to build the AWS session and credentials
sessionCredentials(a) ==
    IF Len(a.CredsFile) > 0 THEN "file"
    ELSE IF Len(a.KCLIAMRoleARN) > 0 THEN "role"
    ELSE "none"


\* number of batches the started worker hands to the record processor
MaxDelivered == 2

\* the process when main is entered with environment env
NewProcess(env) ==
    [env |-> env,
     pc |-> "main",
     adapter |-> [KCLIAMRoleARN |-> "", CredsFile |-> "", StreamName |-> "",
                  Region |-> "", SinkURI |-> "", ConsumerName |-> ""],
     client |-> FALSE,          \* a.client # nil
     creds |-> "none",          \* how creds and sess were built
     streamARN |-> Nil,
     worker |-> "none",         \* none, running
     stopCh |-> FALSE,          \* closed by the signal handler
     ret |-> "not returned",           \* what Start returned
     exit |-> Nil,           \* exit code of the process
     fatal |-> "",              \* the key log.Fatalf named
     log |-> << >>,             \* calls made to the sink client library, AWS and the worker
     delivered |-> 0]

\* main up to the call of adapter.Start: the Adapter literal reads the
\* environment; a required key that is not defined ends the process
Main ==
    /\ proc.pc = "main"
    /\ LET missing == UndefinedRequired(proc.env) IN
        IF Len(missing) > 0
        THEN proc' = [proc EXCEPT !.pc = "exited", !.exit = Ptr(1), !.fatal = missing[1]]
        ELSE proc' = [proc EXCEPT
                !.pc = "initClient",
                !.adapter = [KCLIAMRoleARN |-> getOptionalEnv(proc.env, "KCL_IAM_ROLE_ARN"),
                             CredsFile |-> getOptionalEnv(proc.env, "AWS_APPLICATION_CREDENTIALS"),
                             StreamName |-> proc.env["STREAM_NAME"].val,
                             Region |-> proc.env["REGION"].val,
                             SinkURI |-> proc.env["SINK_URI"].val,
                             ConsumerName |-> proc.env["CONSUMER_NAME"].val]]
    /\ UNCHANGED <<status, lastOp, src, deployments, pass, shards, sources>>

\* Start: a.initClient()
initClient ==
    /\ proc.pc = "initClient"
    /\ \E ok \in BOOLEAN :
        proc' = [proc EXCEPT
            !.log = Append(@, "NewDefaultClient"),
            !.client = ok,
            !.pc = IF ok THEN "credentials" ELSE "returned",
            !.ret = IF ok THEN @ ELSE "cloudevent client error"]
    /\ UNCHANGED <<status, lastOp, src, deployments, pass, shards, sources>>

\* Start: the session and the credentials; session.Must panics when the
\* session cannot be built
StartCredentials ==
    /\ proc.pc = "credentials"
    /\ LET mode == sessionCredentials(proc.adapter) IN
        IF mode = "none"
        THEN proc' = [proc EXCEPT !.pc = "returned", !.ret = "Neither AWS_APPLICATION_CREDENTIALS nor KCL_IAM_ROLE_ARN is found in ENV"]
        ELSE \E ok \in BOOLEAN :
            proc' = [proc EXCEPT
                !.log = Append(@, "NewSession"),
                !.creds = IF ok THEN mode ELSE @,
                !.pc = IF ok THEN "describeStream" ELSE "exited",
                !.exit = IF ok THEN @ ELSE Ptr(2)]
    /\ UNCHANGED <<status, lastOp, src, deployments, pass, shards, sources>>

\* Start: kinesisClient.DescribeStream and the assignment of a.streamARN
StartDescribeStreamIgnoringError ==
    /\ proc.pc = "describeStream"
    /\ \E ok \in BOOLEAN :
        proc' = [proc EXCEPT
            !.log = Append(@, "DescribeStream"),
            !.streamARN = IF ok THEN Ptr("arn:aws:kinesis:stream") ELSE @,
            !.pc = "worker"]
    /\ UNCHANGED <<status, lastOp, src, deployments, pass, shards, sources>>

StartDescribeStream ==
    /\ proc.pc = "describeStream"
    /\ \E ok \in BOOLEAN :
        proc' = [proc EXCEPT
            !.log = Append(@, "DescribeStream"),
            !.streamARN = IF ok THEN Ptr("arn:aws:kinesis:stream") ELSE @,
            !.pc = IF ok THEN "worker" ELSE "returned",
            !.ret = IF ok THEN @ ELSE "describe stream error"]
    /\ UNCHANGED <<status, lastOp, src, deployments, pass, shards, sources>>

\* Start: wk.NewWorker and worker.Start()
StartWorker ==
    /\ proc.pc = "worker"
    /\ \E ok \in BOOLEAN :
        proc' = [proc EXCEPT
            !.log = Append(@, "worker.Start"),
            !.worker = IF ok THEN "running" ELSE @,
            !.pc = IF ok THEN "waiting" ELSE "returned",
            !.ret = IF ok THEN @ ELSE "worker start error"]
    /\ UNCHANGED <<status, lastOp, src, deployments, pass, shards, sources>>

\* the started worker hands a batch to the record processor
WorkerProcessRecords ==
    /\ proc.worker = "running"
    /\ proc.exit = Nil
    /\ proc.delivered < MaxDelivered
    /\ proc' = [proc EXCEPT !.delivered = @ + 1]
    /\ UNCHANGED <<status, lastOp, src, deployments, pass, shards, sources>>

\* the signal handler main installed closes stopCh on the first signal
StopSignal ==
    /\ proc.pc \notin {"main", "exited"}
    /\ ~proc.stopCh
    /\ proc' = [proc EXCEPT !.stopCh = TRUE]
    /\ UNCHANGED <<status, lastOp, src, deployments, pass, shards, sources>>

\* Start: <-stopCh, then return nil
StartStopped ==
    /\ proc.pc = "waiting"
    /\ proc.stopCh
    /\ proc' = [proc EXCEPT !.pc = "returned", !.ret = ErrNone]
    /\ UNCHANGED <<status, lastOp, src, deployments, pass, shards, sources>>

\* main after adapter.Start: logger.Fatal on an error, else main returns
MainExit ==
    /\ proc.pc = "returned"
    /\ proc' = [proc EXCEPT !.pc = "exited",
                            !.exit = IF proc.ret = ErrNone THEN Ptr(0) ELSE Ptr(1)]
    /\ UNCHANGED <<status, lastOp, src, deployments, pass, shards, sources>>

StartupNext ==
    \/ Main
    \/ initClient
    \/ StartCredentials
    \/ StartDescribeStream
    \/ StartWorker
    \/ WorkerProcessRecords
    \/ StopSignal
    \/ StartStopped
    \/ MainExit

StartupInit ==
    /\ status = Unused
    /\ lastOp = Unused
    /\ src = Unused
    /\ deployments = Unused
    /\ pass = Unused
    /\ shards = Unused
    \* os.LookupEnv answers (val, defined) for each key
    /\ \E env \in [{"KCL_IAM_ROLE_ARN", "AWS_APPLICATION_CREDENTIALS", "STREAM_NAME",
                      "REGION", "SINK_URI", "CONSUMER_NAME"} ->
                        {[defined |-> FALSE, val |-> ""],
                         [defined |-> TRUE, val |-> ""],
                         [defined |-> TRUE, val |-> "value"]}] :
        proc = NewProcess(env)
    /\ sources = Unused

SpecStartup == StartupInit /\ [][StartupNext]_vars


(***************************************************************************)
(* SpecSources: passes of the reconciler over two KinesisSources of the    *)
(* same name in two namespaces, interleaved in any order, on one cluster   *)
(***************************************************************************)
\* the two sources: the same name, hence the same labels, in two namespaces
TwoSources ==
    [A |-> Source(Credentials("kinesis-secret-name", "aws-secret-key", "", ""), << >>),
     B |-> [Source(Credentials("", "", "ASSIGNED-IAM-ROLE", "ROLE-ARN"), << >>)
                EXCEPT !.Namespace = "othernamespace", !.UID = otherUID]]

\* one pass of Reconcile over the source stored under key k
ReconcileSource(k) ==
    \E in \in {i \in ReconcileInputs(deployments) :
                    i.sinkErr \/ i.sinkURI # ""} :
        LET r == ReconcileResult(sources[k], deployments, in)
        IN  /\ sources' = [sources EXCEPT ![k] = r.src]
            /\ deployments' = r.deployments
            /\ pass' = PassRecord(pass, sources[k], deployments, in, r)
            /\ UNCHANGED <<status, lastOp, src, shards, proc>>

\* a deployment controlled by the source under key o (the other source, or
\* the same one) shows up in the namespace of the source under key k,
\* carrying the labels they share
ForeignDeployment(k, o) ==
    /\ Cardinality({i \in 1..Len(deployments) : deployments[i].GenerateName = ""})
            < MaxDeployments
    /\ \E pos \in {1, Len(deployments) + 1} :
        deployments' = InsertAt(deployments, pos,
                                ExistingReceiveAdapter(sources[k], sources[o].UID))
    /\ pass' = NoPass(sources[k], deployments')
    /\ UNCHANGED <<status, lastOp, src, shards, proc, sources>>

SourcesNext ==
    \E k \in DOMAIN TwoSources :
        \/ ReconcileSource(k)
        \/ \E o \in DOMAIN TwoSources : ForeignDeployment(k, o)

SourcesInit ==
    /\ status = Unused
    /\ lastOp = Unused
    /\ src = Unused
    /\ deployments = << >>
    /\ pass = NoPass(TwoSources.A, deployments)
    /\ shards = Unused
    /\ proc = Unused
    /\ sources = TwoSources

SpecSources == SourcesInit /\ [][SourcesNext]_vars


(***************************************************************************)
(* SpecConverge: the host calls Reconcile again and again on one source    *)
(* that nobody edits or deletes, over a cluster nobody else writes to      *)
(***************************************************************************)
ConvergeInit ==
    /\ status = Unused
    /\ lastOp = Unused
    /\ \E c \in CredentialConfigs, f \in InitialFinalizers : src = Source(c, f)
    /\ \E n \in 0..MaxDeployments, uid \in {sourceUID, otherUID} :
        deployments = [i \in 1..n |->
            ExistingReceiveAdapter(src, IF i = 1 THEN uid ELSE otherUID)]
    /\ pass = NoPass(src, deployments)
    /\ shards = Unused
    /\ proc = Unused
    /\ sources = Unused

\* the host requeues the key after an error and resyncs it periodically:
\* a pass is always taken again.  The fair action is Reconcile; the pass
\* whose sink resolution fails is named first, it is one of Reconcile's and
\* the quickest to show that a pass can be taken.
SpecConverge ==
    /\ ConvergeInit
    /\ [][Reconcile]_vars
    /\ WF_vars((\E in \in {i \in ReconcileInputs(deployments) : i.sinkErr} :
                    ReconcileWith(in))
               \/ Reconcile)



(***************************************************************************)
(* Properties                                                              *)
(***************************************************************************)
\* a ProcessRecords callback on shard sh has run to its end on a batch that
\* is not empty
Processed(sh) ==
    /\ shards[sh].handler = "ProcessRecords"
    /\ shards[sh].pc = "idle"
    /\ Len(shards[sh].batch) > 0

CheckpointCalls(calls) == Count(calls, {c \in Range(calls) : c.op = "Checkpoint"})

\* C1: when the forward of a non-empty batch fails (no answer, or an answer
\* that is not a success), ProcessRecords makes no checkpoint call for the
\* batch, leaves the stored checkpoint alone and returns.
C1_NoCheckpointOnFailedForward ==
    \A sh \in Shards :
        (Processed(sh) /\ SendFails(shards[sh].resp)) =>
            /\ CheckpointCalls(shards[sh].calls) = 0
            /\ shards[sh].calls = << CallSend(shards[sh].batch) >>
            /\ shards[sh].checkpoint < shards[sh].batch[1].SequenceNumber

C1_Witness ==
    \E sh \in Shards :
        /\ Processed(sh)
        /\ shards[sh].resp = 408
        /\ Len(shards[sh].batch) = 2

\* C2: when the forward of a non-empty batch succeeds, ProcessRecords makes
\* exactly one checkpoint call, after the Send call, with the sequence
\* number of the last record of that batch; while the forward has not
\* returned no checkpoint call has been made.
C2_OneCheckpointOfLastRecord ==
    \A sh \in Shards :
        /\ (Processed(sh) /\ ~SendFails(shards[sh].resp)) =>
              /\ CheckpointCalls(shards[sh].calls) = 1
              /\ shards[sh].calls =
                    << CallSend(shards[sh].batch),
                       CallCheckpoint(
                          Ptr(shards[sh].batch[Len(shards[sh].batch)].SequenceNumber)) >>
        /\ shards[sh].pc = "sending" => CheckpointCalls(shards[sh].calls) = 0

C2_Witness ==
    \E sh \in Shards :
        /\ Processed(sh)
        /\ shards[sh].resp = 200
        /\ Len(shards[sh].batch) = 2
        /\ shards[sh].batch[1].SequenceNumber = 2
        /\ shards[sh].checkpoint = 3

\* C3: at-least-once delivery over any sequence of batches, forward
\* outcomes and shutdowns: no record whose forward failed is covered by the
\* stored checkpoint before it has been forwarded with success (what the
\* claim concludes from the checkpoint only ever being advanced to the last
\* sequence number of a batch forwarded with success).
C3_AtLeastOnce ==
    \A sh \in Shards :
        \A n \in shards[sh].failed : n > shards[sh].checkpoint

\* C4: after any sequence of InitializeConditions, MarkSink, MarkNoSink,
\* MarkDeployed, MarkDeploying and MarkNotDeployed, Ready is True and
\* IsReady returns true exactly when SinkProvided and Deployed are True.
C4_ReadyIffSinkAndDeployed ==
    LET both == /\ status.Conditions[KinesisSourceConditionSinkProvided].Status = "True"
                /\ status.Conditions[KinesisSourceConditionDeployed].Status = "True"
    IN  /\ IsReady(status) <=> both
        /\ status.Conditions[KinesisSourceConditionReady].Status = "True" <=> both

C4_Witness ==
    /\ IsReady(status)
    /\ lastOp = "MarkSink"
    /\ status.Conditions[KinesisSourceConditionDeployed].Status = "True"

\* the calls of the last pass that write a deployment
WriteCalls(calls) == Count(calls, {"Create", "Update"})

\* C5: a pass that finds an owned deployment whose spec equals the spec the
\* pass computes makes no Create and no Update call and leaves the cluster
\* as it was.
C5_NoWriteWhenMatching ==
    (/\ pass.n # 0
     /\ pass.found # 0
     /\ pass.expected # NoDeployment
     /\ pass.preDeployments[pass.found].Spec = pass.expected.Spec) =>
        /\ WriteCalls(pass.calls) = 0
        /\ deployments = pass.preDeployments

C5_Witness ==
    /\ pass.n # 0
    /\ pass.found # 0
    /\ pass.expected # NoDeployment
    /\ pass.preDeployments[pass.found].Spec = pass.expected.Spec
    /\ pass.ret = ErrNone
    /\ pass.calls = <<"GetSinkURI", "List">>

\* C6: a pass that follows at once a pass that created the deployment
\* without error, with the same source and the same sink URI resolved,
\* makes no Create and no Update call, leaves the source (finalizers,
\* conditions, sinkURI) and the cluster as the first pass left them and,
\* when its List call answers, finds the deployment the first pass created.
C6_SecondPassChangesNothing ==
    (/\ pass.n # 0
     /\ pass.prevCreated
     /\ ~pass.sinkErr
     /\ pass.sinkURI = pass.pre.Status.SinkURI) =>
        /\ WriteCalls(pass.calls) = 0
        /\ src = pass.pre
        /\ deployments = pass.preDeployments
        /\ pass.ret # ErrList =>
              /\ pass.ret = ErrNone
              /\ pass.found # 0
              /\ deployments[pass.found] =
                    [pass.expected EXCEPT !.OwnerReferences =
                        << [UID |-> src.UID, Controller |-> TRUE] >>]

C6_Witness ==
    /\ pass.n = 2
    /\ pass.prevCreated
    /\ ~pass.sinkErr
    /\ pass.sinkURI = addressableURI
    /\ pass.ret = ErrNone
    /\ pass.found # 0
    /\ IsReady(src.Status)

\* C7: a pass whose sink resolution fails sets SinkProvided to False with
\* reason "NotFound" and an empty message, returns the resolution error,
\* makes no List, Create or Update call and ends with Ready not True.
C7_SinkResolutionFailure ==
    (pass.n # 0 /\ ~pass.pre.DeletionTimestamp /\ pass.sinkErr) =>
        /\ src.Status.Conditions[KinesisSourceConditionSinkProvided] =
              [Status |-> "False", Reason |-> "NotFound", Message |-> ""]
        /\ pass.ret = ErrSink
        /\ pass.calls = <<"GetSinkURI">>
        /\ deployments = pass.preDeployments
        /\ src.Status.Conditions[KinesisSourceConditionReady].Status # "True"
        /\ ~IsReady(src.Status)

C7_Witness ==
    /\ pass.n # 0
    /\ pass.sinkErr
    /\ IsReady(pass.pre.Status)
    /\ src.Status.Conditions[KinesisSourceConditionReady].Status = "False"

\* a list of finalizers in strictly rising lexical order
StrictlySorted(f) == \A i \in 1..(Len(f) - 1) : Rank(f[i]) < Rank(f[i + 1])

\* a pass over a source that is marked for deletion and carries the
\* controller's finalizer
DeletionPass ==
    /\ pass.n # 0
    /\ pass.pre.DeletionTimestamp
    /\ finalizerName \in Range(pass.pre.Finalizers)

\* C8 as stated: a pass over a source marked for deletion takes the
\* controller's finalizer out and changes nothing else: the other
\* finalizers keep their content and order, status and spec are unchanged
\* and no call is made.
C8_OtherFinalizersKeepOrder ==
    DeletionPass =>
        /\ src.Finalizers = Without(pass.pre.Finalizers, finalizerName)
        /\ src.Status = pass.pre.Status
        /\ src.Spec = pass.pre.Spec
        /\ pass.calls = << >>
        /\ deployments = pass.preDeployments

\* C8 amended: a pass over a source marked for deletion takes the
\* controller's finalizer out and keeps every other finalizer, in a list
\* that is sorted and free of duplicates (their order may change); status
\* and spec are unchanged and no call is made.
C8_OtherFinalizersKeptAsSet ==
    (pass.n # 0 /\ pass.pre.DeletionTimestamp) =>
        /\ Range(src.Finalizers) = Range(pass.pre.Finalizers) \ {finalizerName}
        /\ StrictlySorted(src.Finalizers)
        /\ src.Status = pass.pre.Status
        /\ src.Spec = pass.pre.Spec
        /\ src.DeletionTimestamp
        /\ pass.ret = ErrNone
        /\ pass.calls = << >>
        /\ deployments = pass.preDeployments

C8_Witness ==
    /\ DeletionPass
    /\ Len(pass.pre.Finalizers) = 3
    /\ Len(src.Finalizers) = 2
    /\ Len(deployments) > 0

\* the values given to the variable name in the container environment env
EnvValues(env, name) == {env[i].Value : i \in {j \in 1..Len(env) : env[j].Name = name}}

\* the environment of the receive-adapter container of deployment d
AdapterEnv(d) == d.Spec.Template.Spec.Containers[1].Env

\* C9: every deployment the builder generates sets exactly one of
\* AWS_APPLICATION_CREDENTIALS and KCL_IAM_ROLE_ARN to a non-empty value.
C9_ExactlyOneCredentialVariable ==
    pass.expected # NoDeployment =>
        LET creds == EnvValues(AdapterEnv(pass.expected), "AWS_APPLICATION_CREDENTIALS") \ {""}
            role == EnvValues(AdapterEnv(pass.expected), "KCL_IAM_ROLE_ARN") \ {""}
        IN  (creds # {}) # (role # {})

\* C10: with secret name and key both set, the deployment generated has one
\* secret volume naming the secret, mounts it in the receive-adapter
\* container, sets AWS_APPLICATION_CREDENTIALS to mount path "/" key, sets
\* no KCL_IAM_ROLE_ARN and has no assigned-role annotation, also when the
\* role fields are set.
C10_SecretDeployment ==
    (/\ pass.expected # NoDeployment
     /\ pass.pre.Spec.AwsCredsSecret.Name # ""
     /\ pass.pre.Spec.AwsCredsSecret.Key # "") =>
        LET pod == pass.expected.Spec.Template.Spec
            c == pod.Containers[1]
        IN  /\ Len(pod.Containers) = 1
            /\ c.Name = "receive-adapter"
            /\ pod.Volumes = << [Name |-> "aws-credentials",
                                 SecretName |-> pass.pre.Spec.AwsCredsSecret.Name] >>
            /\ c.VolumeMounts = << [Name |-> "aws-credentials",
                                    MountPath |-> "/var/secrets/aws"] >>
            /\ EnvValues(c.Env, "AWS_APPLICATION_CREDENTIALS") =
                  {"/var/secrets/aws/" \o pass.pre.Spec.AwsCredsSecret.Key}
            /\ EnvValues(c.Env, "KCL_IAM_ROLE_ARN") = {}
            /\ "iam.amazonaws.com/role" \notin
                  DOMAIN pass.expected.Spec.Template.Annotations

C10_Witness ==
    /\ pass.expected # NoDeployment
    /\ pass.pre.Spec.AwsCredsSecret.Name # ""
    /\ pass.pre.Spec.AwsCredsSecret.Key # ""
    /\ pass.pre.Spec.KIAMOptions.KCLIAMRoleARN # ""
    /\ pass.pre.Spec.KIAMOptions.AssignedIAMRole # ""
    /\ "Create" \in Range(pass.calls)

\* C11: with no secret reference and the role fields set, the deployment
\* generated has no volume and no volume mount, carries the assigned role
\* in the iam.amazonaws.com/role annotation of its pod template, sets
\* KCL_IAM_ROLE_ARN to the role ARN and sets no AWS_APPLICATION_CREDENTIALS.
C11_RoleDeployment ==
    (/\ pass.expected # NoDeployment
     /\ pass.pre.Spec.AwsCredsSecret.Name = ""
     /\ pass.pre.Spec.AwsCredsSecret.Key = ""
     /\ pass.pre.Spec.KIAMOptions.AssignedIAMRole # ""
     /\ pass.pre.Spec.KIAMOptions.KCLIAMRoleARN # "") =>
        LET tpl == pass.expected.Spec.Template
            c == tpl.Spec.Containers[1]
        IN  /\ Len(tpl.Spec.Containers) = 1
            /\ tpl.Spec.Volumes = << >>
            /\ c.VolumeMounts = << >>
            /\ "iam.amazonaws.com/role" \in DOMAIN tpl.Annotations
            /\ tpl.Annotations["iam.amazonaws.com/role"] =
                  pass.pre.Spec.KIAMOptions.AssignedIAMRole
            /\ EnvValues(c.Env, "KCL_IAM_ROLE_ARN") =
                  {pass.pre.Spec.KIAMOptions.KCLIAMRoleARN}
            /\ EnvValues(c.Env, "AWS_APPLICATION_CREDENTIALS") = {}

C11_Witness ==
    /\ pass.expected # NoDeployment
    /\ pass.pre.Spec.AwsCredsSecret.Name = ""
    /\ pass.pre.Spec.AwsCredsSecret.Key = ""
    /\ pass.pre.Spec.KIAMOptions.AssignedIAMRole = "ASSIGNED-IAM-ROLE"
    /\ pass.pre.Spec.KIAMOptions.KCLIAMRoleARN = "ROLE-ARN"
    /\ pass.calls = <<"GetSinkURI", "List", "Create">>
    /\ pass.ret = ErrNone

\* neither a secret reference nor a role pair is set on source s
NeitherMode(s) ==
    /\ s.Spec.AwsCredsSecret.Name = "" /\ s.Spec.AwsCredsSecret.Key = ""
    /\ s.Spec.KIAMOptions.AssignedIAMRole = "" /\ s.Spec.KIAMOptions.KCLIAMRoleARN = ""

\* a secret reference and a role pair are both set on source s
BothModes(s) ==
    /\ s.Spec.AwsCredsSecret.Name # "" /\ s.Spec.AwsCredsSecret.Key # ""
    /\ s.Spec.KIAMOptions.AssignedIAMRole # "" /\ s.Spec.KIAMOptions.KCLIAMRoleARN # ""

\* the condition t of status st before a pass touches it: a condition not
\* yet set counts as Unknown, which is what the pass initializes it to
Before(st, t) ==
    IF st.Conditions[t].Status = "nil"
    THEN [Status |-> "Unknown", Reason |-> "", Message |-> ""]
    ELSE st.Conditions[t]

\* C12: a pass over a source with neither credential mode set, whose sink
\* resolves, returns the configuration error, makes no Create and no
\* Update call and leaves the Deployed condition as it was.
C12_NeitherModeConfigurationError ==
    (/\ pass.n # 0
     /\ ~pass.pre.DeletionTimestamp
     /\ ~pass.sinkErr
     /\ NeitherMode(pass.pre)) =>
        /\ pass.ret = "Configuration error"
        /\ WriteCalls(pass.calls) = 0
        /\ deployments = pass.preDeployments
        /\ src.Status.Conditions[KinesisSourceConditionDeployed] =
              Before(pass.pre.Status, KinesisSourceConditionDeployed)

\* C13 as stated: a pass over a source with both credential modes set,
\* whose sink resolves and whose List call answers, returns the
\* configuration error, makes no Create and no Update call and leaves the
\* Deployed condition as it was.
C13_BothModesRejected ==
    (/\ pass.n # 0
     /\ ~pass.pre.DeletionTimestamp
     /\ ~pass.sinkErr
     /\ ~pass.listErr
     /\ BothModes(pass.pre)) =>
        /\ pass.ret = "Configuration error"
        /\ WriteCalls(pass.calls) = 0
        /\ deployments = pass.preDeployments
        /\ src.Status.Conditions[KinesisSourceConditionDeployed] =
              Before(pass.pre.Status, KinesisSourceConditionDeployed)

\* C13 amended: a source with both credential modes set is not rejected:
\* no pass over it returns the configuration error, and a pass whose sink
\* resolves and whose List and Create or Update calls succeed returns no
\* error, computes the secret-based deployment (the role pair is left
\* out), ends with a deployment controlled by the source in the cluster
\* and marks Deployed True.
C13_BothModesAccepted ==
    (/\ pass.n # 0
     /\ ~pass.pre.DeletionTimestamp
     /\ BothModes(pass.pre)) =>
        /\ pass.ret # "Configuration error"
        /\ (~pass.sinkErr /\ ~pass.listErr /\ ~pass.writeErr) =>
              /\ pass.ret = ErrNone
              /\ src.Status.Conditions[KinesisSourceConditionDeployed].Status = "True"
              /\ EnvValues(AdapterEnv(pass.expected), "AWS_APPLICATION_CREDENTIALS") =
                    {"/var/secrets/aws/" \o pass.pre.Spec.AwsCredsSecret.Key}
              /\ EnvValues(AdapterEnv(pass.expected), "KCL_IAM_ROLE_ARN") = {}
              /\ \E i \in 1..Len(deployments) : IsControlledBy(deployments[i], src)
              /\ pass.found = 0 => pass.calls = <<"GetSinkURI", "List", "Create">>

C13_Witness ==
    /\ pass.n # 0
    /\ BothModes(pass.pre)
    /\ pass.sinkURI = addressableURI
    /\ pass.calls = <<"GetSinkURI", "List", "Create">>
    /\ pass.ret = ErrNone
    /\ IsReady(src.Status)
    /\ Len(deployments) = 1

SendCalls(calls) == Count(calls, {c \in Range(calls) : c.op = "Send"})

\* C14: a ProcessRecords callback on an empty batch returns at once: it
\* makes no call (no Send, no Checkpoint) and leaves the stored checkpoint
\* and the record of what was forwarded as they were.
C14_EmptyBatchReturnsAtOnce ==
    [][\A sh \in Shards :
          (/\ shards'[sh] # shards[sh]
           /\ shards'[sh].handler = "ProcessRecords"
           /\ shards'[sh].batch = << >>) =>
              /\ shards'[sh].calls = << >>
              /\ shards'[sh].pc = "idle"
              /\ shards'[sh].checkpoint = shards[sh].checkpoint
              /\ shards'[sh].iter = shards[sh].iter
              /\ shards'[sh].forwarded = shards[sh].forwarded
              /\ shards'[sh].failed = shards[sh].failed]_vars

C14_Witness ==
    \E sh \in Shards :
        /\ shards[sh].handler = "ProcessRecords"
        /\ shards[sh].batch = << >>
        /\ shards[sh].pc = "idle"
        /\ shards[sh].checkpoint = 2

\* C15: Shutdown makes exactly one checkpoint call, without offset (nil),
\* when the reason is TERMINATE, and makes no call for any other reason.
C15_ShutdownCheckpoint ==
    \A sh \in Shards :
        shards[sh].handler = "Shutdown" =>
            IF shards[sh].reason = TERMINATE
            THEN /\ CheckpointCalls(shards[sh].calls) = 1
                 /\ shards[sh].calls = << CallCheckpoint(Nil) >>
            ELSE shards[sh].calls = << >>

C15_Witness ==
    \E sh1, sh2 \in Shards :
        /\ shards[sh1].handler = "Shutdown" /\ shards[sh1].reason = TERMINATE
        /\ shards[sh2].handler = "Shutdown" /\ shards[sh2].reason = ZOMBIE

\* C16: for every non-empty batch, while the forward is under way and
\* after ProcessRecords has returned, whatever the sink answered, exactly
\* one Send call has been made, and it carries the whole batch under the
\* event type "aws.kinesis.event".
C16_OneEnvelopePerBatch ==
    \A sh \in Shards :
        (shards[sh].handler = "ProcessRecords" /\ Len(shards[sh].batch) > 0) =>
            /\ SendCalls(shards[sh].calls) = 1
            /\ shards[sh].calls[1].op = "Send"
            /\ shards[sh].calls[1].type = "aws.kinesis.event"
            /\ shards[sh].calls[1].data = shards[sh].batch

C16_Witness ==
    \E sh1, sh2 \in Shards :
        /\ Processed(sh1) /\ shards[sh1].resp = 500 /\ Len(shards[sh1].batch) = 2
        /\ Processed(sh2) /\ shards[sh2].resp = 202 /\ Len(shards[sh2].batch) = 2

\* a ProcessRecords callback on shard sh has built the envelope of a
\* non-empty batch
Enveloped(sh) ==
    /\ shards[sh].handler = "ProcessRecords"
    /\ Len(shards[sh].batch) > 0

\* C17: the envelope id depends on the first record's sequence number and
\* the batch size only: two batches get the same id exactly when they agree
\* on both.
C17_IdFromSequenceNumberAndSize ==
    \A sh1, sh2 \in Shards :
        (Enveloped(sh1) /\ Enveloped(sh2)) =>
            ((/\ shards[sh1].batch[1].SequenceNumber = shards[sh2].batch[1].SequenceNumber
              /\ Len(shards[sh1].batch) = Len(shards[sh2].batch))
             <=> shards[sh1].calls[1].id = shards[sh2].calls[1].id)

\* the deployments of deps that source s controls
Controlled(deps, s) == {i \in 1..Len(deps) : IsControlledBy(deps[i], s)}

\* the deployments of deps that the controller created for source s: a
\* deployment put in the cluster by others has no generated name
CreatedFor(deps, s) ==
    {i \in Controlled(deps, s) : deps[i].GenerateName = "kinesis-" \o s.Name \o "-"}

\* C18: after any sequence of passes, failed or not, the cluster holds at
\* most one deployment created for the source by the controller; a pass
\* makes a Create call only when the cluster held no deployment controlled
\* by the source and its lookup found none, and no pass raises the number
\* of controlled deployments above one.
C18_AtMostOneWorkload ==
    /\ Cardinality(CreatedFor(deployments, src)) <= 1
    /\ pass.n # 0 =>
          /\ "Create" \in Range(pass.calls) =>
                /\ pass.found = 0
                /\ Controlled(pass.preDeployments, pass.pre) = {}
          /\ \/ Cardinality(Controlled(deployments, src)) <= 1
             \/ Cardinality(Controlled(deployments, src)) =
                    Cardinality(Controlled(pass.preDeployments, pass.pre))

C18_Witness ==
    /\ pass.n # 0
    /\ pass.ret = ErrNone
    /\ pass.found # 0
    /\ Cardinality(CreatedFor(deployments, src)) = 1
    /\ Len(deployments) = 2
    /\ pass.prevCreated

\* the assigned-role annotation of pod template tpl, if any
RoleAnnotation(tpl) ==
    IF "iam.amazonaws.com/role" \in DOMAIN tpl.Annotations
    THEN {tpl.Annotations["iam.amazonaws.com/role"]}
    ELSE {}

\* the fields of pod template tpl the controller manages: service account,
\* container image, environment, volume mounts, volumes and the
\* assigned-role annotation
Managed(tpl) == <<tpl.Spec, RoleAnnotation(tpl)>>

\* C19: after a pass that finds a controlled deployment and returns no
\* error, the managed fields of that deployment equal the ones the pass
\* computed from the source and the sink URI, and the pass made an Update
\* call if they did not before.
C19_ManagedFieldsConverge ==
    (pass.n # 0 /\ pass.found # 0 /\ pass.ret = ErrNone) =>
        /\ Managed(deployments[pass.found].Spec.Template) =
              Managed(pass.expected.Spec.Template)
        /\ Managed(pass.preDeployments[pass.found].Spec.Template) #
              Managed(pass.expected.Spec.Template)
                 => "Update" \in Range(pass.calls)

\* C20: a pass whose List, Create or Update call fails returns the error
\* of that call and stops there; it ends with the finalizer present,
\* SinkProvided as MarkSink set it (True with the resolved URI recorded
\* when the URI is not empty), the Deployed condition as it was before the
\* pass and the cluster unchanged.
C20_ApiFailureReturned ==
    (pass.n # 0 /\ (pass.listErr \/ pass.writeErr)) =>
        /\ pass.listErr => (pass.ret = "list failed" /\ pass.calls = <<"GetSinkURI", "List">>)
        /\ pass.writeErr =>
              \/ pass.ret = "create failed" /\ pass.calls = <<"GetSinkURI", "List", "Create">>
              \/ pass.ret = "update failed" /\ pass.calls = <<"GetSinkURI", "List", "Update">>
        /\ Count(src.Finalizers, {finalizerName}) = 1
        /\ src.Status.SinkURI = pass.sinkURI
        /\ pass.sinkURI # "" =>
              src.Status.Conditions[KinesisSourceConditionSinkProvided] =
                 [Status |-> "True", Reason |-> "", Message |-> ""]
        /\ src.Status.Conditions[KinesisSourceConditionDeployed] =
              Before(pass.pre.Status, KinesisSourceConditionDeployed)
        /\ deployments = pass.preDeployments

C20_Witness ==
    /\ pass.n # 0
    /\ pass.writeErr
    /\ pass.ret = "update failed"
    /\ pass.sinkURI = addressableURI
    /\ pass.pre.Status.Conditions[KinesisSourceConditionDeployed].Status = "True"
    /\ src.Status.Conditions[KinesisSourceConditionDeployed].Status = "True"

\* main got past the environment and called adapter.Start
StartCalled == proc.pc # "main" /\ proc.fatal = ""

\* Start has returned to main (which may have exited since)
StartReturned == StartCalled /\ proc.ret # "not returned"

\* neither the credentials file path nor the role ARN is configured
NeitherConfigured == proc.adapter.CredsFile = "" /\ proc.adapter.KCLIAMRoleARN = ""

\* C21: Start with neither a credentials-file path nor a role ARN returns
\* an error; it never performs the DescribeStream lookup, never starts the
\* worker, and so no batch is processed.
C21_NeitherCredentialIsStartError ==
    (StartCalled /\ NeitherConfigured) =>
        /\ Range(proc.log) \cap {"NewSession", "DescribeStream", "worker.Start"} = {}
        /\ proc.pc \notin {"describeStream", "worker", "waiting"}
        /\ proc.streamARN = Nil
        /\ proc.worker = "none"
        /\ proc.delivered = 0
        /\ StartReturned => proc.ret = (IF proc.client THEN "Neither AWS_APPLICATION_CREDENTIALS nor KCL_IAM_ROLE_ARN is found in ENV" ELSE "cloudevent client error")
        /\ proc.pc = "exited" => proc.exit = Ptr(1)

C21_Witness ==
    /\ StartCalled
    /\ NeitherConfigured
    /\ proc.ret = "Neither AWS_APPLICATION_CREDENTIALS nor KCL_IAM_ROLE_ARN is found in ENV"
    /\ proc.pc = "exited"

\* one of the four required keys is not defined in the environment
RequiredUndefined ==
    {k \in {"STREAM_NAME", "REGION", "SINK_URI", "CONSUMER_NAME"} : ~proc.env[k].defined}

\* C22: when STREAM_NAME, REGION, SINK_URI or CONSUMER_NAME is not defined,
\* the process ends fatally (exit code 1) before adapter.Start: no sink
\* client, no stream lookup, no worker activity.  When all four are defined
\* main calls Start, whether or not AWS_APPLICATION_CREDENTIALS and
\* KCL_IAM_ROLE_ARN are defined.
C22_RequiredEnvFatalBeforeStart ==
    proc.pc # "main" =>
        /\ RequiredUndefined # {} =>
            /\ proc.pc = "exited"
            /\ proc.exit = Ptr(1)
            /\ proc.fatal \in RequiredUndefined
            /\ proc.log = << >>
            /\ ~proc.client
            /\ proc.worker = "none"
            /\ proc.ret = "not returned"
            /\ proc.delivered = 0
        /\ RequiredUndefined = {} => StartCalled

C22_Witness ==
    /\ proc.pc = "exited"
    /\ proc.fatal = "SINK_URI"
    /\ RequiredUndefined = {"SINK_URI", "CONSUMER_NAME"}
    /\ proc.env["AWS_APPLICATION_CREDENTIALS"].defined

\* the DescribeStream call of Start was made and answered with an error
DescribeStreamFailed == "DescribeStream" \in Range(proc.log) /\ proc.streamARN = Nil

\* C27: when the DescribeStream lookup fails, Start returns that error and
\* the worker is never started; worker.Start is called only once a.streamARN
\* has been recorded.
C27_DescribeStreamFailureIsStartError ==
    /\ DescribeStreamFailed =>
        /\ proc.ret = "describe stream error"
        /\ proc.pc \in {"returned", "exited"}
        /\ "worker.Start" \notin Range(proc.log)
        /\ proc.worker = "none"
        /\ proc.delivered = 0
        /\ proc.pc = "exited" => proc.exit = Ptr(1)
    /\ ("worker.Start" \in Range(proc.log) \/ proc.worker # "none") => proc.streamARN # Nil

C27_Witness ==
    /\ DescribeStreamFailed
    /\ proc.ret = "describe stream error"
    /\ proc.pc = "exited"

\* C23: MarkSink with an empty URI leaves the recorded SinkURI empty and
\* SinkProvided Unknown with reason "SinkEmpty"; while the recorded SinkURI
\* is empty Ready is not True, also after MarkDeployed; MarkSink with a URI
\* that is not empty makes Ready True when Deployed is True.
C23_EmptySinkIsUnknown ==
    /\ (lastOp = "MarkSink" /\ status.SinkURI = "") =>
        /\ status.Conditions[KinesisSourceConditionSinkProvided].Status = "Unknown"
        /\ status.Conditions[KinesisSourceConditionSinkProvided].Reason = "SinkEmpty"
        /\ status.Conditions[KinesisSourceConditionSinkProvided].Message
                = "Sink has resolved to empty."
    /\ status.SinkURI = "" =>
        /\ status.Conditions[KinesisSourceConditionSinkProvided].Status # "True"
        /\ status.Conditions[KinesisSourceConditionReady].Status # "True"
        /\ ~IsReady(status)
    /\ (/\ lastOp = "MarkSink"
        /\ status.SinkURI # ""
        /\ status.Conditions[KinesisSourceConditionDeployed].Status = "True") =>
        /\ status.Conditions[KinesisSourceConditionReady].Status = "True"
        /\ IsReady(status)

C23_Witness ==
    /\ lastOp = "MarkDeployed"
    /\ status.SinkURI = ""
    /\ status.Conditions[KinesisSourceConditionSinkProvided].Reason = "SinkEmpty"
    /\ status.Conditions[KinesisSourceConditionDeployed].Status = "True"
    /\ status.Conditions[KinesisSourceConditionReady].Status = "Unknown"
    /\ status.Conditions[KinesisSourceConditionReady].Reason = "SinkEmpty"

\* the aggregation with False dominating Unknown; a condition that is not
\* set counts as Unknown
Aggregate(a, b) ==
    IF a = "False" \/ b = "False" THEN "False"
    ELSE IF a = "True" /\ b = "True" THEN "True"
    ELSE "Unknown"

\* the status of condition t, Unknown when t is not set
StatusOf(s, t) ==
    IF GetCondition(s, t) = NoCondition THEN "Unknown" ELSE GetCondition(s, t).Status

\* C26: in every reachable status Ready is False if SinkProvided or
\* Deployed is False, else Unknown if either is Unknown, else True.
C26_ReadyIsAggregate ==
    StatusOf(status, KinesisSourceConditionReady)
        = Aggregate(StatusOf(status, KinesisSourceConditionSinkProvided),
                    StatusOf(status, KinesisSourceConditionDeployed))

\* deployment d is still in deps, whatever happened to its spec
Kept(d, deps) ==
    \E j \in 1..Len(deps) : [deps[j] EXCEPT !.Spec = d.Spec] = d

\* C24: no pass, the pass over a source marked for deletion included, makes
\* a delete call: the calls of a pass are GetSinkURI, List, Create and
\* Update, and every deployment the cluster held before the pass is still
\* there after it.
C24_NoDeleteCall ==
    pass.n # 0 =>
        /\ Range(pass.calls) \subseteq {"GetSinkURI", "List", "Create", "Update"}
        /\ Len(deployments) >= Len(pass.preDeployments)
        /\ \A i \in 1..Len(pass.preDeployments) : Kept(pass.preDeployments[i], deployments)

C24_Witness ==
    /\ DeletionPass
    /\ Controlled(pass.preDeployments, pass.pre) # {}
    /\ Controlled(deployments, src) # {}
    /\ finalizerName \notin Range(src.Finalizers)

\* the Deployed condition is True after the last pass and was not before it
DeployedSetTrue ==
    /\ src.Status.Conditions[KinesisSourceConditionDeployed].Status = "True"
    /\ pass.pre.Status.Conditions[KinesisSourceConditionDeployed].Status # "True"

\* the last pass created no deployment and did not set Deployed to True
NothingDeployed ==
    /\ "Create" \notin Range(pass.calls)
    /\ Len(deployments) = Len(pass.preDeployments)
    /\ ~DeployedSetTrue

\* C29 as stated: every pass over a source with neither credential mode
\* set creates no deployment, does not set Deployed to True, and returns an
\* error.
C29_NeitherModeNeverDeploys ==
    (pass.n # 0 /\ NeitherMode(pass.pre)) =>
        /\ NothingDeployed
        /\ pass.ret # ErrNone

\* C29 amended: every pass over a source with neither credential mode set
\* creates no deployment and does not set Deployed to True; it returns an
\* error unless the source is marked for deletion, in which case it returns
\* nil.
C29_NeitherModeNeverDeploysUnlessDeleted ==
    (pass.n # 0 /\ NeitherMode(pass.pre)) =>
        /\ NothingDeployed
        /\ pass.ret # ErrNone <=> ~pass.pre.DeletionTimestamp

\* the second of two passes in a row over a source without credentials
C29_Witness ==
    /\ pass.n = 2
    /\ NeitherMode(pass.pre)
    /\ ~pass.pre.DeletionTimestamp
    /\ pass.ret = ErrConfiguration
    /\ src.Status.Conditions[KinesisSourceConditionDeployed].Status = "Unknown"

\* C30: a pass over a source with neither credential mode set, whose sink
\* resolves, returns the configuration error whether the List call fails or
\* not, and leaves every deployment the source controls as it was.
C30_ValidationBeforeLookup ==
    (/\ pass.n # 0
     /\ ~pass.pre.DeletionTimestamp
     /\ ~pass.sinkErr
     /\ NeitherMode(pass.pre)) =>
        /\ pass.listErr => pass.ret # ErrList
        /\ pass.ret = ErrConfiguration
        /\ \A i \in Controlled(pass.preDeployments, pass.pre) :
                /\ i <= Len(deployments)
                /\ deployments[i] = pass.preDeployments[i]

\* the deployments of deps that source s does not control, in list order
NotControlled(deps, s) == SelectSeq(deps, LAMBDA d : ~IsControlledBy(d, s))

\* C25: a pass over one of two sources leaves the other source as it was,
\* leaves every deployment its source does not control as it was (also one
\* that carries the same labels in the same namespace), and finds as its
\* own only a deployment its source controls.
C25_SourcesDoNotInterfere ==
    [][\A k \in DOMAIN TwoSources :
        (pass'.n # 0 /\ pass' # pass /\ pass'.pre.UID = sources[k].UID) =>
            /\ \A o \in DOMAIN TwoSources \ {k} : sources'[o] = sources[o]
            /\ NotControlled(deployments', sources[k]) = NotControlled(deployments, sources[k])
            /\ pass'.found # 0 => IsControlledBy(deployments[pass'.found], sources[k])
            /\ "Update" \in Range(pass'.calls) => pass'.found # 0
      ]_vars

\* a pass over A was listed a deployment that B controls and created A's
\* own, after B had been reconciled to Ready
C25_Witness ==
    /\ pass.n # 0
    /\ pass.pre.UID = sources.A.UID
    /\ \E i \in Listed(pass.preDeployments, pass.pre) :
            IsControlledBy(pass.preDeployments[i], sources.B)
    /\ "Create" \in Range(pass.calls)
    /\ pass.ret = ErrNone
    /\ IsReady(sources.B.Status)

\* the last pass, if any, was answered by its collaborators without error
\* and with a sink URI that is not empty
GoodAnswers ==
    pass.n # 0 =>
        /\ ~pass.sinkErr
        /\ pass.sinkURI # ""
        /\ ~pass.listErr
        /\ ~pass.writeErr

\* the finalizer is set, the source controls one deployment and is Ready
Converged ==
    /\ finalizerName \in Range(src.Finalizers)
    /\ Cardinality(Controlled(deployments, src)) = 1
    /\ src.Status.Conditions[KinesisSourceConditionReady].Status = "True"
    /\ IsReady(src.Status)

\* C28: for a source that is not deleted and has a credential mode set, if
\* from some pass on the sink resolves to a URI that is not empty and the
\* List, Create and Update calls succeed, repeated passes reach a state
\* with the finalizer set, one controlled deployment and Ready True, and
\* stay there.
C28_ReconcileConverges ==
    (~NeitherMode(src) /\ <>[]GoodAnswers) => <>[]Converged

\* a pass answered without error that found everything in place and wrote
\* nothing
C28_Witness ==
    /\ pass.n # 0
    /\ GoodAnswers
    /\ Converged
    /\ pass.pre = src
    /\ pass.preDeployments = deployments
    /\ pass.calls = <<"GetSinkURI", "List">>

\* C31: after a pass over a source that is not marked for deletion the
\* controller's finalizer is in the list exactly once and Ready,
\* SinkProvided and Deployed all have a status; InitializeConditions, on
\* the status the pass starts from, sets to Unknown the conditions that had
\* none and leaves every other condition, and the sink URI, as it was.
C31_FinalizerAndConditionsPresent ==
    (pass.n # 0 /\ ~pass.pre.DeletionTimestamp) =>
        /\ Count(src.Finalizers, {finalizerName}) = 1
        /\ \A t \in ConditionTypes : src.Status.Conditions[t].Status \in {"True", "False", "Unknown"}
        /\ LET init == InitializeConditions(pass.pre.Status)
           IN  /\ init.SinkURI = pass.pre.Status.SinkURI
               /\ \A t \in ConditionTypes :
                    IF pass.pre.Status.Conditions[t] = NoCondition
                    THEN init.Conditions[t] = Condition("Unknown", "", "")
                    ELSE init.Conditions[t] = pass.pre.Status.Conditions[t]

\* a pass over a source that already carried the finalizer and was Ready:
\* its sink resolution fails and Deployed keeps the status it had
C31_Witness ==
    /\ pass.n # 0
    /\ ~pass.pre.DeletionTimestamp
    /\ finalizerName \in Range(pass.pre.Finalizers)
    /\ pass.pre.Status.Conditions[KinesisSourceConditionReady].Status = "True"
    /\ pass.sinkErr
    /\ src.Status.Conditions[KinesisSourceConditionDeployed].Status = "True"

\* the positions at which the deployment lists a and b of equal length differ
Changed(a, b) == {i \in 1..Len(a) : a[i] # b[i]}

\* the deployments of deps that source s controls and its lookup lists: the
\* ones in its namespace that carry its labels
Owned(deps, s) == Controlled(deps, s) \cap Listed(deps, s)

\* C32: a deployment a pass creates carries a controller owner reference
\* to the source, the source's labels and namespace, and is what the
\* lookup of the next pass returns; a pass that starts with several
\* deployments controlled by the source in its namespace creates none and
\* changes at most one, the first listed one the source controls.
C32_CreatedIsFoundAgain ==
    /\ (pass.n # 0 /\ "Create" \in Range(pass.calls) /\ pass.ret = ErrNone) =>
        /\ IsControlledBy(pass.expected, pass.pre)
        /\ pass.expected.Labels = getLabels(pass.pre)
        /\ pass.expected.Namespace = pass.pre.Namespace
        /\ Len(deployments) = Len(pass.preDeployments) + 1
        /\ getReceiveAdapter(deployments, pass.pre) # 0
        /\ deployments[getReceiveAdapter(deployments, pass.pre)] = pass.expected
    /\ (pass.n # 0 /\ Cardinality(Owned(pass.preDeployments, pass.pre)) > 1) =>
        /\ "Create" \notin Range(pass.calls)
        /\ Len(deployments) = Len(pass.preDeployments)
        /\ Changed(deployments, pass.preDeployments) \subseteq {pass.found}
        /\ pass.found # 0 =>
            /\ pass.found \in Owned(pass.preDeployments, pass.pre)
            /\ \A i \in Owned(pass.preDeployments, pass.pre) : pass.found <= i

\* a pass over a source that controls two deployments updates the first
C32_Witness ==
    /\ pass.n # 0
    /\ Cardinality(Owned(pass.preDeployments, pass.pre)) = 2
    /\ "Update" \in Range(pass.calls)
    /\ pass.ret = ErrNone
    /\ Changed(deployments, pass.preDeployments) = {1}

\* C33: when the callbacks of two shards overlap, each one checkpoints
\* through the checkpointer of its own batch only, with the last sequence
\* number of its own batch, and does so exactly when its own forward
\* succeeded: whatever the other shard's forward did, and while the other
\* shard's forward is still in flight.
C33_ShardsCheckpointOnTheirOwn ==
    \A sh \in Shards : \A o \in Shards \ {sh} :
        (Processed(sh) /\ (Processed(o) \/ shards[o].pc = "sending")) =>
            LET own == shards[sh]
                last == lastRecordSequenceNumber(own.batch)
            IN  /\ {c \in Range(own.calls) : c.op = "Checkpoint"} =
                      IF SendFails(own.resp) THEN {}
                      ELSE {CallCheckpoint(Ptr(last))}
                /\ CheckpointCalls(own.calls) = IF SendFails(own.resp) THEN 0 ELSE 1
                /\ IF SendFails(own.resp)
                   THEN own.checkpoint < own.batch[1].SequenceNumber
                   ELSE own.checkpoint = last
                /\ shards[o].pc = "sending" => CheckpointCalls(shards[o].calls) = 0

\* one shard's forward failed, the other one's succeeded, on batches that
\* end at different sequence numbers
C33_Witness ==
    \E sh \in Shards : \E o \in Shards \ {sh} :
        /\ Processed(sh) /\ Processed(o)
        /\ shards[sh].resp = 500
        /\ shards[o].resp = 202
        /\ Len(shards[sh].batch) = 2
        /\ lastRecordSequenceNumber(shards[o].batch) = 1
        /\ shards[o].checkpoint = 1
        /\ shards[sh].checkpoint = 0

\* the dependent condition the method named op marks
MarkedBy(op) ==
    IF op \in {"MarkSink", "MarkNoSink"} THEN KinesisSourceConditionSinkProvided
    ELSE KinesisSourceConditionDeployed

\* C34: when marking a dependent condition False or Unknown changes Ready,
\* Ready takes the status, the reason and the message the dependent was
\* marked with; when a step makes Ready True, Ready's reason and message
\* are empty.
C34_ReadyCopiesReasonAndMessage ==
    [][LET ready == GetCondition(status, KinesisSourceConditionReady)
           ready1 == GetCondition(status', KinesisSourceConditionReady)
           marked1 == GetCondition(status', MarkedBy(lastOp'))
       IN  /\ (/\ lastOp' \in {"MarkSink", "MarkNoSink", "MarkDeploying",
                               "MarkNotDeployed"}
               /\ marked1.Status \in {"False", "Unknown"}
               /\ ready1 # ready) =>
                  /\ ready1 = marked1
                  /\ marked1.Status = IF lastOp' \in {"MarkNoSink", "MarkNotDeployed"}
                                      THEN "False" ELSE "Unknown"
                  /\ marked1.Reason \in Reasons \cup {"SinkEmpty"}
           /\ (IsTrue(ready1) /\ ~IsTrue(ready)) =>
                  ready1 = Condition("True", "", "")]_vars

\* Deployed was marked Unknown with a reason and a message while the sink
\* is provided, and Ready carries both
C34_Witness ==
    /\ lastOp = "MarkDeploying"
    /\ IsTrue(GetCondition(status, KinesisSourceConditionSinkProvided))
    /\ GetCondition(status, KinesisSourceConditionDeployed) =
            Condition("Unknown", "NotFound", "hi")
    /\ GetCondition(status, KinesisSourceConditionReady) =
            Condition("Unknown", "NotFound", "hi")

\* C35: once the worker has started, Start returns only after the stop
\* signal, and then without error; after the stop signal the worker is
\* halted: no further batch is handed to the record processor (so none is
\* forwarded and no checkpoint is issued).
C35_StopHaltsTheWorker ==
    [][/\ (proc'.worker = "running" /\ proc'.ret # "not returned") =>
              (proc'.stopCh /\ proc'.ret = ErrNone)
       /\ proc.stopCh => proc'.delivered = proc.delivered]_vars

\* C36: a pass that returns an error (sink resolution, configuration, list,
\* create or update) leaves Ready not True, whatever the conditions were
\* when the pass started.
C36_ErrorPassIsNotReady ==
    (pass.n # 0 /\ pass.ret # ErrNone) => ~IsReady(src.Status)

\* the values of the SINK_URI variables in the containers of deployment d
SinkEnv(d) ==
    UNION {EnvValues(d.Spec.Template.Spec.Containers[i].Env, "SINK_URI") :
              i \in 1..Len(d.Spec.Template.Spec.Containers)}

\* C37 as stated: SinkProvided = True implies a non-empty recorded sinkURI,
\* and after any pass that returns no error the SINK_URI value of the
\* deployment the source controls equals the recorded sinkURI.
C37_SinkUriRecordedAndDeployed ==
    /\ IsTrue(GetCondition(src.Status, KinesisSourceConditionSinkProvided))
            => src.Status.SinkURI # ""
    /\ (pass.n # 0 /\ pass.ret = ErrNone) =>
            LET ra == getReceiveAdapter(deployments, src)
            IN  ra # 0 => SinkEnv(deployments[ra]) = {src.Status.SinkURI}

\* C37: SinkProvided = True implies a non-empty recorded sinkURI, and after
\* any pass over a source not marked for deletion that returns no error the
\* source controls a deployment whose SINK_URI value equals the recorded
\* sinkURI (which is the URI the sink resolved to in that pass).
C37_SinkUriRecordedAndDeployedUnlessDeleted ==
    /\ IsTrue(GetCondition(src.Status, KinesisSourceConditionSinkProvided))
            => src.Status.SinkURI # ""
    /\ (pass.n # 0 /\ pass.ret = ErrNone /\ ~pass.pre.DeletionTimestamp) =>
            LET ra == getReceiveAdapter(deployments, src)
            IN  /\ ra # 0
                /\ SinkEnv(deployments[ra]) = {src.Status.SinkURI}
                /\ src.Status.SinkURI = pass.sinkURI

\* a pass found a deployment with another sink URI and brought it to the
\* one it recorded
C37_Witness ==
    /\ pass.n # 0 /\ pass.ret = ErrNone /\ ~pass.pre.DeletionTimestamp
    /\ pass.found # 0
    /\ "Update" \in Range(pass.calls)
    /\ SinkEnv(pass.preDeployments[pass.found]) = {""}
    /\ src.Status.SinkURI = addressableURI
    /\ IsTrue(GetCondition(src.Status, KinesisSourceConditionSinkProvided))
    /\ SinkEnv(deployments[pass.found]) = {addressableURI}

\* C38: an Update the controller issues replaces the pod spec of the
\* deployment's template with the desired one and nothing else: namespace
\* and name, labels, selector, replica count, owner references and the
\* template's labels and annotations are as they were, and no other
\* deployment changes.
C38_UpdateReplacesPodSpecOnly ==
    (pass.n # 0 /\ "Update" \in Range(pass.calls) /\ pass.ret = ErrNone) =>
        LET old == pass.preDeployments[pass.found]
            new == deployments[pass.found]
        IN  /\ new.Spec.Template.Spec = pass.expected.Spec.Template.Spec
            /\ new.Namespace = old.Namespace
            /\ new.GenerateName = old.GenerateName
            /\ new.Labels = old.Labels
            /\ new.OwnerReferences = old.OwnerReferences
            /\ new.Spec.Selector = old.Spec.Selector
            /\ new.Spec.Replicas = old.Spec.Replicas
            /\ new.Spec.Template.Labels = old.Spec.Template.Labels
            /\ new.Spec.Template.Annotations = old.Spec.Template.Annotations
            /\ Changed(deployments, pass.preDeployments) = {pass.found}

\* the deployment updated differs from the desired one in its replica
\* count, selector and template metadata, before and after the update
C38_Witness ==
    /\ pass.n # 0 /\ "Update" \in Range(pass.calls) /\ pass.ret = ErrNone
    /\ deployments[pass.found].Spec.Replicas = 0
    /\ pass.expected.Spec.Replicas = 1
    /\ deployments[pass.found].Spec.Selector # pass.expected.Spec.Selector
    /\ deployments[pass.found].Spec.Template.Annotations
            # pass.expected.Spec.Template.Annotations
    /\ deployments[pass.found].OwnerReferences # pass.expected.OwnerReferences
    /\ Len(deployments[pass.found].Spec.Template.Spec.Containers) = 1

\* the places of the controller's finalizer in the list f
Occurrences(f) == {i \in 1..Len(f) : f[i] = finalizerName}

\* C39: addFinalizer and removeFinalizer work on the finalizers as a set.
\* After a pass that adds, the controller's finalizer is in the list once,
\* also when it was there before; after a pass that removes, it is not in
\* the list, and when it was not there before the members are the same; in
\* both cases every other finalizer is still in the list, and nothing else
\* joined it.
C39_FinalizersAreASet ==
    pass.n # 0 =>
        LET before == Range(pass.pre.Finalizers)
            after == Range(src.Finalizers)
        IN  /\ before \ {finalizerName} \subseteq after
            /\ after \ {finalizerName} = before \ {finalizerName}
            /\ ~pass.pre.DeletionTimestamp =>
                  /\ Cardinality(Occurrences(src.Finalizers)) = 1
                  /\ finalizerName \in before => after = before
            /\ pass.pre.DeletionTimestamp =>
                  /\ Occurrences(src.Finalizers) = {}
                  /\ finalizerName \notin before => after = before

\* a pass adds the finalizer to a list that holds it already, next to the
\* finalizer of another controller
C39_Witness ==
    /\ pass.n # 0
    /\ ~pass.pre.DeletionTimestamp
    /\ finalizerName \in Range(pass.pre.Finalizers)
    /\ "z-other-controller" \in Range(pass.pre.Finalizers)
    /\ src.Finalizers = pass.pre.Finalizers
    /\ Len(src.Finalizers) = 2

\* a pass removes the finalizer from a list that does not hold it
C39_WitnessAbsent ==
    /\ pass.n # 0
    /\ pass.pre.DeletionTimestamp
    /\ finalizerName \notin Range(pass.pre.Finalizers)
    /\ Len(src.Finalizers) = 2

\* both the credentials file path and the role ARN are configured
BothConfigured == proc.adapter.CredsFile # "" /\ proc.adapter.KCLIAMRoleARN # ""

\* C40: Start settles on one credential mode. It builds at most one
\* session; with a credentials file path configured the credentials are
\* those of the file, whether or not a role ARN is configured too, and the
\* role is assumed only when no credentials file path is configured.
C40_CredentialsFileWins ==
    /\ Cardinality({i \in 1..Len(proc.log) : proc.log[i] = "NewSession"}) <= 1
    /\ proc.creds \in {"none", "file", "role"}
    /\ (StartCalled /\ BothConfigured) =>
            /\ proc.creds \in {"none", "file"}
            /\ (proc.pc \in {"describeStream", "worker", "waiting"}
                    \/ DescribeStreamFailed \/ proc.worker = "running")
                  => proc.creds = "file"
    /\ proc.creds = "role" =>
            (proc.adapter.CredsFile = "" /\ proc.adapter.KCLIAMRoleARN # "")
    /\ proc.creds = "file" => proc.adapter.CredsFile # ""

\* both configured, and the worker runs with the credentials of the file
C40_Witness ==
    /\ StartCalled
    /\ BothConfigured
    /\ proc.creds = "file"
    /\ proc.worker = "running"
    /\ proc.delivered > 0

====
